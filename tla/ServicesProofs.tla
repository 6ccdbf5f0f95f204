--------------------------- MODULE ServicesProofs ---------------------------
(***************************************************************************)
(* Proofs about the services that requests and jobs share: the daily limit *)
(* of scripts, the cooldown of a stock library, the leases on a provider's *)
(* slots, the paid plan of an account, and what the voice's provider is    *)
(* asked for and a film hears of it.                                       *)
(***************************************************************************)
EXTENDS PlanGuards, ClipSearch, ProviderLease, Membership, Narration, TotalsProofs,
        FiniteSetTheorems, TLAPS

(* The daily limit of scripts *)

CapTypeOK ==
    /\ today \in 0..Days
    /\ todayKey \in [Scripters -> (0..Days) \cup {NoDay}]
    /\ scriptDay \in (0..Days) \cup {NoDay}
    /\ scriptCount \in Nat
    /\ let \in [0..Days -> Nat]
    /\ wentBack \in BOOLEAN

(* The counter of the account is exact for its day, and days that it has not
   come to have let nothing through. *)
CounterExact ==
    /\ scriptDay = NoDay => \A d \in 0..Days : let[d] = 0
    /\ scriptDay # NoDay => /\ let[scriptDay] = scriptCount
                            /\ \A d \in 0..Days : d > scriptDay => let[d] = 0

CapInv == CapTypeOK /\ (~wentBack => CounterExact /\ DailyCapKept)

LEMMA InitCap == ASSUME CapInit PROVE CapInv
<1>1. 0 \in 0..Days /\ MaxPerDay >= 0
  BY CapIsNat
<1>2. CapTypeOK /\ \A d \in 0..Days : let[d] = 0
  BY <1>1 DEF CapInit, CapTypeOK
<1> QED  BY <1>1, <1>2 DEF CapInit, CapInv, CounterExact, DailyCapKept

LEMMA NextCap == ASSUME CapInv, [CapNext]_capVars PROVE CapInv'
<1>0. CapTypeOK /\ 0 \in 0..Days
  BY CapIsNat DEF CapInv
<1>1. ASSUME UNCHANGED <<scriptDay, scriptCount, let, wentBack>>,
             today' \in 0..Days, todayKey' \in [Scripters -> (0..Days) \cup {NoDay}]
      PROVE  CapInv'
  BY <1>0, <1>1 DEF CapInv, CapTypeOK, CounterExact, DailyCapKept
<1>2. ASSUME NEW c \in Scripters, TakeDay(c) PROVE CapInv'
  BY <1>0, <1>1, <1>2 DEF TakeDay, CapTypeOK
<1>3. ASSUME NEW c \in Scripters, LetThrough(c) PROVE CapInv'
  <2> DEFINE day == todayKey[c]
  <2>1. day \in 0..Days /\ CountFor(day) \in Nat /\ CountFor(day) < MaxPerDay
    BY <1>0, <1>3 DEF LetThrough, CapTypeOK, CountFor, MayScript
  <2>2. /\ scriptDay' = day /\ scriptCount' = CountFor(day) + 1
        /\ let' = [let EXCEPT ![day] = @ + 1]
        /\ wentBack' = (wentBack \/ (scriptDay # NoDay /\ day < scriptDay))
        /\ todayKey' = [todayKey EXCEPT ![c] = NoDay]
        /\ today' = today
    BY <1>3 DEF LetThrough
  <2> HIDE DEF day
  <2>3. \A d \in 0..Days : let'[d] = IF d = day THEN let[d] + 1 ELSE let[d]
    BY <1>0, <2>1, <2>2 DEF CapTypeOK
  <2>4. CapTypeOK'
    BY <1>0, <2>1, <2>2, <2>3 DEF CapTypeOK
  <2>5. ASSUME ~wentBack' PROVE CounterExact' /\ DailyCapKept'
    <3>1. ~wentBack /\ (scriptDay # NoDay => day >= scriptDay)
      <4>1. ~wentBack /\ ~(scriptDay # NoDay /\ day < scriptDay)
        BY <2>2, <2>5
      <4>2. scriptDay # NoDay => scriptDay \in 0..Days
        BY <1>0 DEF CapTypeOK
      <4> QED  BY <2>1, <4>1, <4>2
    <3>2. CounterExact /\ \A d \in 0..Days : let[d] <= MaxPerDay
      BY <3>1 DEF CapInv, DailyCapKept
    <3>3. let[day] = CountFor(day) /\ \A d \in 0..Days : d > day => let[d] = 0
      <4>1. CASE scriptDay = NoDay
        BY <2>1, <3>2, <4>1, NoDayIsNone DEF CounterExact, CountFor
      <4>2. CASE scriptDay # NoDay
        <5>1. scriptDay \in 0..Days /\ day >= scriptDay
          BY <1>0, <3>1, <4>2 DEF CapTypeOK
        <5>2. let[scriptDay] = scriptCount /\ \A d \in 0..Days : d > scriptDay => let[d] = 0
          BY <3>2, <4>2 DEF CounterExact
        <5>3. \A d \in 0..Days : d > day => d > scriptDay
          BY <2>1, <5>1
        <5>4. scriptDay = day \/ day > scriptDay
          BY <2>1, <5>1
        <5> QED  BY <2>1, <5>2, <5>3, <5>4 DEF CountFor
      <4> QED  BY <4>1, <4>2
    <3>4. day # NoDay
      BY <2>1, NoDayIsNone
    <3>5. CounterExact'
      BY <2>1, <2>2, <2>3, <3>3, <3>4 DEF CounterExact
    <3>6. \A d \in 0..Days : let'[d] <= MaxPerDay
      BY <1>0, <2>1, <2>3, <3>2, <3>3, CapIsNat DEF CapTypeOK
    <3> QED  BY <3>5, <3>6 DEF DailyCapKept
  <2> QED  BY <2>4, <2>5 DEF CapInv
<1>4. ASSUME NEW c \in Scripters, TurnAway(c) PROVE CapInv'
  BY <1>0, <1>1, <1>4 DEF TurnAway, CapTypeOK
<1>5. CASE Midnight
  BY <1>0, <1>1, <1>5, CapIsNat DEF Midnight, CapTypeOK
<1>6. CASE UNCHANGED capVars
  BY <1>0, <1>1, <1>6 DEF capVars, CapTypeOK
<1> QED  BY <1>2, <1>3, <1>4, <1>5, <1>6 DEF CapNext

(* Every day lets through as many requests as the limit says at most, unless a
   request that took its day before midnight is counted after one that took it
   later (enforceScriptDailyCap). *)
THEOREM DailyCap == CapSpec => []DailyCapKept
<1>1. CapInv => DailyCapKept
  BY DEF CapInv, DailyCapKept
<1> QED  BY <1>1, InitCap, NextCap, PTL DEF CapSpec

-----------------------------------------------------------------------------
(* The cooldown of a stock library *)

(* The failures recorded in Firestore are those in a row. *)
CoolInv ==
    /\ shared \in [Libraries -> [failures : 0..FailureThreshold, cooldown : Int]]
    /\ record \in [Libraries -> [row : 0..FailureThreshold, since : 0..CoolTime]]
    /\ \A l \in Libraries : shared[l].failures = record[l].row
    /\ CooldownHolds

LEMMA InitCool == ASSUME SearchInit PROVE CoolInv
BY SearchTimes DEF SearchInit, CoolInv, CooldownHolds, Well

LEMMA CountedType ==
    ASSUME NEW n \in 0..FailureThreshold
    PROVE  /\ Counted(n) \in 0..FailureThreshold
           /\ Counted(n) = FailureThreshold <=> n + 1 >= FailureThreshold
BY SearchTimes DEF Counted

(* What is recorded of one library says nothing of another. *)
LEMMA OneLibrary ==
    ASSUME CoolInv, NEW l \in Libraries,
           NEW h \in [failures : 0..FailureThreshold, cooldown : Int],
           NEW e \in [row : 0..FailureThreshold, since : 0..CoolTime],
           shared' = [shared EXCEPT ![l] = h], record' = [record EXCEPT ![l] = e],
           h.failures = e.row,
           e.row = FailureThreshold => h.cooldown >= CoolTime - Lateness - e.since
    PROVE  CoolInv'
<1>1. \A j \in Libraries : /\ shared'[j] = IF j = l THEN h ELSE shared[j]
                           /\ record'[j] = IF j = l THEN e ELSE record[j]
  BY DEF CoolInv
<1>2. /\ shared' \in [Libraries -> [failures : 0..FailureThreshold, cooldown : Int]]
      /\ record' \in [Libraries -> [row : 0..FailureThreshold, since : 0..CoolTime]]
  BY DEF CoolInv
<1> QED  BY <1>1, <1>2 DEF CoolInv, CooldownHolds

LEMMA TickCool == ASSUME CoolInv, SearchTick PROVE CoolInv'
<1>1. \A l \in Libraries : /\ shared[l] \in [failures : 0..FailureThreshold, cooldown : Int]
                           /\ record[l] \in [row : 0..FailureThreshold, since : 0..CoolTime]
  BY DEF CoolInv
<1>2. \A l \in Libraries :
         /\ shared'[l] \in [failures : 0..FailureThreshold, cooldown : Int]
         /\ shared'[l].failures = shared[l].failures
         /\ shared'[l].cooldown = Sooner(shared[l].cooldown)
  <2> TAKE l \in Libraries
  <2>1. shared'[l] = [shared[l] EXCEPT !.cooldown = Sooner(@)]
    BY DEF SearchTick
  <2>2. Sooner(shared[l].cooldown) \in Int
    BY <1>1 DEF Sooner
  <2> QED  BY <1>1, <2>1, <2>2
<1>3. \A l \in Libraries :
         /\ record'[l] \in [row : 0..FailureThreshold, since : 0..CoolTime]
         /\ record'[l].row = record[l].row
         /\ record'[l].since = IF record[l].since < CoolTime THEN record[l].since + 1
                               ELSE record[l].since
  <2> TAKE l \in Libraries
  <2> DEFINE t == IF record[l].since < CoolTime THEN record[l].since + 1 ELSE record[l].since
  <2>1. record'[l] = [record[l] EXCEPT !.since = t]
    BY DEF SearchTick
  <2>2. t \in 0..CoolTime
    BY <1>1, SearchTimes
  <2> HIDE DEF t
  <2>3. /\ record'[l] \in [row : 0..FailureThreshold, since : 0..CoolTime]
        /\ record'[l].row = record[l].row /\ record'[l].since = t
    BY <1>1, <2>1, <2>2
  <2> QED  BY <2>3 DEF t
<1>4. ASSUME NEW l \in Libraries, record'[l].row = FailureThreshold
      PROVE  shared'[l].cooldown >= CoolTime - Lateness - record'[l].since
  <2>1. shared[l].cooldown >= CoolTime - Lateness - record[l].since
    BY <1>3, <1>4 DEF CoolInv, CooldownHolds
  <2>2. /\ shared[l].cooldown \in Int /\ record[l].since \in 0..CoolTime
        /\ CoolTime \in Nat /\ Lateness \in Nat
    BY <1>1, SearchTimes
  <2> QED  BY <1>2, <1>3, <2>1, <2>2 DEF Sooner
<1>5. /\ shared' \in [Libraries -> [failures : 0..FailureThreshold, cooldown : Int]]
      /\ record' \in [Libraries -> [row : 0..FailureThreshold, since : 0..CoolTime]]
  BY <1>2, <1>3 DEF SearchTick
<1> QED  BY <1>2, <1>3, <1>4, <1>5 DEF CoolInv, CooldownHolds

LEMMA NextCool == ASSUME CoolInv, [SearchNext]_searchVars PROVE CoolInv'
<1>1. ASSUME UNCHANGED <<shared, record>> PROVE CoolInv'
  BY <1>1 DEF CoolInv, CooldownHolds
<1>2. \A l \in Libraries : /\ shared[l] \in [failures : 0..FailureThreshold, cooldown : Int]
                           /\ record[l] \in [row : 0..FailureThreshold, since : 0..CoolTime]
                           /\ shared[l].failures = record[l].row
  BY DEF CoolInv
<1>3. ASSUME NEW s \in Seekers, NEW l \in Libraries, RecordSuccess(s, l) PROVE CoolInv'
  <2> DEFINE e == [record[l] EXCEPT !.row = 0]
  <2>1. e \in [row : 0..FailureThreshold, since : 0..CoolTime] /\ e.row = 0
    BY <1>2, SearchTimes
  <2>2. Well \in [failures : 0..FailureThreshold, cooldown : Int] /\ Well.failures = 0
    BY SearchTimes DEF Well
  <2>3. shared' = [shared EXCEPT ![l] = Well] /\ record' = [record EXCEPT ![l] = e]
    BY <1>3 DEF RecordSuccess, CoolInv
  <2> HIDE DEF e
  <2>4. 0 # FailureThreshold
    BY SearchTimes
  <2> QED  BY <2>1, <2>2, <2>3, <2>4, OneLibrary
<1>4. ASSUME NEW s \in Seekers, NEW l \in Libraries, RecordFailure(s, l) PROVE CoolInv'
  <2>1. PICK late \in 0..Lateness : shared' = [shared EXCEPT ![l] = FailedShared(@, late)]
    BY <1>4 DEF RecordFailure
  <2> DEFINE h == FailedShared(shared[l], late)
             e == [row |-> Counted(record[l].row), since |-> 0]
  <2>2. /\ h \in [failures : 0..FailureThreshold, cooldown : Int]
        /\ h.failures = Counted(shared[l].failures)
        /\ shared[l].failures + 1 >= FailureThreshold => h.cooldown = CoolTime - late
    BY <1>2, CountedType, SearchTimes DEF FailedShared
  <2>3. /\ e \in [row : 0..FailureThreshold, since : 0..CoolTime]
        /\ e.row = Counted(record[l].row) /\ e.since = 0
    BY <1>2, CountedType, SearchTimes
  <2>4. shared' = [shared EXCEPT ![l] = h] /\ record' = [record EXCEPT ![l] = e]
    BY <1>4, <2>1 DEF RecordFailure, CoolInv
  <2> HIDE DEF h, e
  <2>5. e.row = FailureThreshold => h.cooldown >= CoolTime - Lateness - e.since
    <3> SUFFICES ASSUME e.row = FailureThreshold
                 PROVE  h.cooldown >= CoolTime - Lateness - e.since
      OBVIOUS
    <3>1. record[l].row + 1 >= FailureThreshold
      BY <1>2, <2>3, CountedType
    <3>2. h.cooldown = CoolTime - late
      BY <1>2, <2>2, <3>1
    <3> QED  BY <2>3, <3>2, SearchTimes
  <2> QED  BY <1>2, <2>2, <2>3, <2>4, <2>5, OneLibrary
<1>5. ASSUME NEW s \in Seekers, NEW l \in Libraries, LibraryStep(s, l) PROVE CoolInv'
  BY <1>1, <1>3, <1>4, <1>5 DEF LibraryStep, LeaveAlone, FromMemo, AskLibrary, Replies, FailsForNow,
                                Refuses, RecordThrows
<1>6. ASSUME NEW s \in Seekers, NEW m \in Machines, NEW q \in Queries, StartSearch(s, m, q)
      PROVE  CoolInv'
  BY <1>1, <1>6 DEF StartSearch
<1>7. ASSUME NEW s \in Seekers, FinishSearch(s) PROVE CoolInv'
  BY <1>1, <1>7 DEF FinishSearch
<1>8. CASE UNCHANGED searchVars
  BY <1>1, <1>8 DEF searchVars
<1> QED  BY <1>5, <1>6, <1>7, <1>8, TickCool DEF SearchNext

(* A library whose last calls have failed as often as the threshold says, with
   no success recorded since, is cooling down for all finalize jobs until the
   cooldown has passed since the last failure, however many processes record
   outcomes and in whatever order (markSharedProviderTransientFailure). *)
THEOREM Cooldown == SearchSpec => []CooldownHolds
<1>1. CoolInv => CooldownHolds
  BY DEF CoolInv
<1> QED  BY <1>1, InitCool, NextCool, PTL DEF SearchSpec

-----------------------------------------------------------------------------
(* Leases on a provider's slots *)

LeaseOf == [owner : Callers \cup {Nobody}, left : Int, forgotten : BOOLEAN]

CallOf == [at : {"idle", "asking", "admitted", "calling", "succeeded", "spent", "releasing",
                 "freeing", "dead"},
           kind : Providers \cup {Nobody}, home : Workers \cup {Nobody}, age : 0..Delay,
           reset : SUBSET Nat, slot : Nat]

Away == {"idle", "asking", "dead"}

LeasesTyped ==
    /\ DOMAIN lease = Providers
    /\ \A k \in Providers : DOMAIN lease[k] = SlotsOf(k)
    /\ \A k \in Providers : \A i \in SlotsOf(k) : lease[k][i] \in LeaseOf

CallsTyped ==
    /\ call \in [Callers -> CallOf]
    /\ \A c \in Callers : call[c].at \notin {"idle", "dead"} => call[c].kind \in Providers

(* What an execution has leased: only what its call needs; one slot; while it
   asks, a slot that it will reset first or find active; and while it gives it
   back, the slot it has found. *)
InUse(c) ==
    \A k \in Providers : \A i \in SlotsOf(k) :
        lease[k][i].owner = c /\ lease[k][i].left > 0 /\ ~lease[k][i].forgotten
            => call[c].kind = k /\ call[c].at \notin Away

OneSlot(c) ==
    \A k \in Providers : \A i, j \in SlotsOf(k) :
        lease[k][i].owner = c /\ lease[k][j].owner = c => i = j

FoundActive(c) ==
    call[c].at = "asking" =>
        /\ call[c].reset \subseteq SlotsOf(call[c].kind)
        /\ \A i \in SlotsOf(call[c].kind) :
               lease[call[c].kind][i].owner = c =>
                   i \in call[c].reset \/ ActiveAt(lease[call[c].kind][i], call[c].age)

FoundOwn(c) ==
    call[c].at = "freeing" =>
        /\ call[c].slot \in SlotsOf(call[c].kind)
        /\ \A i \in SlotsOf(call[c].kind) :
               lease[call[c].kind][i].owner = c => i = call[c].slot

CallerExact(c) == InUse(c) /\ OneSlot(c) /\ FoundActive(c) /\ FoundOwn(c)

(* The next admission waits for the gap, counted from the last one. *)
GapExact ==
    /\ state \in [Providers -> [cooldown : Int, next : Int]]
    /\ quiet \in [Providers -> Nat]
    /\ \A k \in Providers :
           quiet[k] >= Gap[k] \/ state[k].next + quiet[k] >= Gap[k] - Delay

LeaseInv ==
    /\ LeasesTyped
    /\ CallsTyped
    /\ \A c \in Callers : CallerExact(c)
    /\ GapExact

LEMMA InitLease == ASSUME LeaseInit PROVE LeaseInv
<1>1. IdleCall \in CallOf /\ IdleCall.at = "idle"
  BY TimesPositive DEF IdleCall, CallOf
<1>2. NoLease \in LeaseOf /\ NoLease.owner = Nobody
  BY TimesPositive DEF NoLease, LeaseOf, Over
<1>3. Calm \in [cooldown : Int, next : Int]
  BY TimesPositive DEF Calm, Over
<1>4. \A c \in Callers : call[c] = IdleCall
  BY DEF LeaseInit
<1>5. \A k \in Providers : \A i \in SlotsOf(k) : lease[k][i] = NoLease
  BY DEF LeaseInit
<1>6. LeasesTyped /\ CallsTyped
  BY <1>1, <1>2 DEF LeaseInit, LeasesTyped, CallsTyped
<1>7. \A c \in Callers : CallerExact(c)
  BY <1>1, <1>2, <1>4, <1>5, NobodyCalls
     DEF CallerExact, InUse, OneSlot, FoundActive, FoundOwn
<1>8. /\ state \in [Providers -> [cooldown : Int, next : Int]]
      /\ quiet = Gap /\ Gap \in [Providers -> Nat]
  BY <1>3, TimesPositive DEF LeaseInit
<1> QED  BY <1>6, <1>7, <1>8 DEF LeaseInv, GapExact

(* Leases that others write are none of an execution's, and one that loses a
   lease has none too many. *)
LEMMA OthersExact ==
    ASSUME LeaseInv, NEW c \in Callers, call'[c] = call[c], LeasesTyped',
           \A k \in Providers : \A i \in SlotsOf(k) :
               lease'[k][i].owner = c => lease'[k][i] = lease[k][i]
    PROVE  CallerExact(c)'
<1>1. CallerExact(c) /\ (call[c].at \notin {"idle", "dead"} => call[c].kind \in Providers)
  BY DEF LeaseInv, CallsTyped
<1>2. InUse(c)'
  BY <1>1 DEF CallerExact, InUse
<1>3. OneSlot(c)'
  BY <1>1 DEF CallerExact, OneSlot
<1>4. FoundActive(c)'
  BY <1>1 DEF CallerExact, FoundActive, ActiveAt
<1>5. FoundOwn(c)'
  BY <1>1 DEF CallerExact, FoundOwn
<1> QED  BY <1>2, <1>3, <1>4, <1>5 DEF CallerExact

(* A step of one call. *)
LEMMA OneCall ==
    ASSUME LeaseInv, NEW c \in Callers, NEW x \in CallOf, call' = [call EXCEPT ![c] = x],
           x.at \notin {"idle", "dead"} => x.kind \in Providers,
           LeasesTyped', GapExact', CallerExact(c)',
           \A k \in Providers : \A i \in SlotsOf(k) :
               lease'[k][i].owner \in Callers \ {c} => lease'[k][i] = lease[k][i]
    PROVE  LeaseInv'
<1>1. call \in [Callers -> CallOf]
  BY DEF LeaseInv, CallsTyped
<1>2. \A d \in Callers : call'[d] = IF d = c THEN x ELSE call[d]
  BY <1>1
<1>3. CallsTyped'
  BY <1>1, <1>2 DEF LeaseInv, CallsTyped
<1>4. \A d \in Callers : CallerExact(d)'
  <2> SUFFICES ASSUME NEW d \in Callers, d # c PROVE CallerExact(d)'
    OBVIOUS
  <2> QED  BY <1>2, OthersExact
<1> QED  BY <1>3, <1>4 DEF LeaseInv

(* One slot is written. *)
LEMMA OneSlotWritten ==
    ASSUME LeaseInv, NEW k \in Providers, NEW i \in SlotsOf(k), NEW l \in LeaseOf,
           lease' = [lease EXCEPT ![k][i] = l]
    PROVE  /\ LeasesTyped'
           /\ \A j \in Providers : \A n \in SlotsOf(j) :
                  lease'[j][n] = IF j = k /\ n = i THEN l ELSE lease[j][n]
<1>1. /\ DOMAIN lease = Providers
      /\ \A j \in Providers : DOMAIN lease[j] = SlotsOf(j)
      /\ \A j \in Providers : \A n \in SlotsOf(j) : lease[j][n] \in LeaseOf
  BY DEF LeaseInv, LeasesTyped
<1>2. /\ DOMAIN lease' = Providers
      /\ \A j \in Providers : lease'[j] = IF j = k THEN [lease[k] EXCEPT ![i] = l] ELSE lease[j]
  BY <1>1
<1>3. DOMAIN lease'[k] = SlotsOf(k)
      /\ \A n \in SlotsOf(k) : lease'[k][n] = IF n = i THEN l ELSE lease[k][n]
  BY <1>1, <1>2
<1>4. \A j \in Providers : \A n \in SlotsOf(j) :
         lease'[j][n] = IF j = k /\ n = i THEN l ELSE lease[j][n]
  BY <1>2, <1>3
<1>5. \A j \in Providers : DOMAIN lease'[j] = SlotsOf(j)
  BY <1>1, <1>2, <1>3
<1> QED  BY <1>1, <1>2, <1>4, <1>5 DEF LeasesTyped, SlotsOf

LEMMA CallType ==
    ASSUME LeaseInv, NEW c \in Callers
    PROVE  /\ call[c] \in CallOf /\ call \in [Callers -> CallOf]
           /\ call[c].at \notin {"idle", "dead"} => call[c].kind \in Providers
           /\ CallerExact(c)
BY DEF LeaseInv, CallsTyped

LEMMA GapStays == ASSUME LeaseInv, UNCHANGED <<state, quiet>> PROVE GapExact'
BY DEF LeaseInv, GapExact

LEMMA CooldownWritten ==
    ASSUME LeaseInv, NEW k \in Providers, NEW t \in Int,
           state' = [state EXCEPT ![k].cooldown = t], UNCHANGED quiet
    PROVE  GapExact'
<1>1. state \in [Providers -> [cooldown : Int, next : Int]]
  BY DEF LeaseInv, GapExact
<1> DEFINE s == [state[k] EXCEPT !.cooldown = t]
<1>2. s \in [cooldown : Int, next : Int] /\ s.next = state[k].next
  BY <1>1
<1>3. state' = [state EXCEPT ![k] = s]
  BY <1>1
<1> HIDE DEF s
<1>4. \A j \in Providers : state'[j] = IF j = k THEN s ELSE state[j]
  BY <1>1, <1>3
<1>5. state' \in [Providers -> [cooldown : Int, next : Int]]
  BY <1>1, <1>2, <1>3
<1> QED  BY <1>2, <1>4, <1>5 DEF LeaseInv, GapExact

(* A call goes on, and its lease is not touched. *)
LEMMA GoesOn ==
    ASSUME LeaseInv, NEW c \in Callers, NEW x \in CallOf, call' = [call EXCEPT ![c] = x],
           x.kind = call[c].kind, call[c].at \notin Away, x.at \notin Away \cup {"freeing"},
           UNCHANGED lease, GapExact'
    PROVE  LeaseInv'
<1>1. call'[c] = x
  BY CallType
<1>2. LeasesTyped' /\ x.kind \in Providers
  BY CallType DEF LeaseInv, LeasesTyped, Away
<1>3. InUse(c)'
  BY <1>1, CallType DEF CallerExact, InUse
<1>4. OneSlot(c)'
  BY CallType DEF CallerExact, OneSlot
<1>5. FoundActive(c)' /\ FoundOwn(c)'
  BY <1>1 DEF FoundActive, FoundOwn, Away
<1> QED  BY <1>2, <1>3, <1>4, <1>5, OneCall DEF CallerExact

(* A call is over, and leaves nothing that it could have given back. *)
LEMMA Ends ==
    ASSUME LeaseInv, NEW c \in Callers, Ended(c), LeasesTyped', UNCHANGED <<state, quiet>>,
           \A k \in Providers : \A i \in SlotsOf(k) :
               /\ lease'[k][i].owner \in Callers \ {c} => lease'[k][i] = lease[k][i]
               /\ lease'[k][i].owner = c =>
                      lease[k][i].owner = c /\ (lease'[k][i].left > 0 => lease'[k][i].forgotten)
    PROVE  LeaseInv'
<1> DEFINE x == [IdleCall EXCEPT !.home = call[c].home]
<1>1. x \in CallOf /\ x.at = "idle"
  BY CallType, TimesPositive DEF IdleCall, CallOf
<1>2. call' = [call EXCEPT ![c] = x]
  BY DEF Ended
<1> HIDE DEF x
<1>3. call'[c] = x
  BY <1>2, CallType
<1>4. InUse(c)'
  BY DEF InUse
<1>5. OneSlot(c)'
  BY CallType DEF CallerExact, OneSlot
<1>6. FoundActive(c)' /\ FoundOwn(c)'
  BY <1>1, <1>3 DEF FoundActive, FoundOwn
<1>7. \A k \in Providers : \A i \in SlotsOf(k) :
         lease'[k][i].owner \in Callers \ {c} => lease'[k][i] = lease[k][i]
  OBVIOUS
<1>8. CallerExact(c)' /\ GapExact'
  BY <1>4, <1>5, <1>6, GapStays DEF CallerExact
<1> QED  BY <1>1, <1>2, <1>7, <1>8, OneCall

LEMMA AskKept ==
    ASSUME LeaseInv, NEW c \in Callers, NEW w \in Workers, NEW k \in Providers, Ask(c, w, k)
    PROVE  LeaseInv'
<1> DEFINE reset == {i \in SlotsOf(k) : lease[k][i].owner # Nobody /\ ~ActiveAt(lease[k][i], 0)}
           x == [call[c] EXCEPT !.at = "asking", !.kind = k, !.home = w, !.reset = reset]
<1>1. call[c] \in CallOf /\ call[c].at = "idle" /\ UNCHANGED <<lease, state, quiet>>
  BY CallType DEF Ask
<1>2. reset \subseteq Nat
  BY DEF SlotsOf
<1>3. call' = [call EXCEPT ![c] = x]
  BY CallType DEF Ask
<1>4. x \in CallOf /\ x.at = "asking" /\ x.kind = k /\ x.reset = reset /\ x.age \in 0..Delay
  <2> HIDE DEF reset
  <2> QED  BY <1>1, <1>2 DEF CallOf
<1> HIDE DEF x
<1>5. call'[c] = x
  BY <1>3, CallType
<1>6. InUse(c)'
  BY <1>1, CallType DEF CallerExact, InUse, Away
<1>7. OneSlot(c)'
  BY <1>1, CallType DEF CallerExact, OneSlot
<1>8. FoundActive(c)'
  <2> SUFFICES ASSUME NEW i \in SlotsOf(k), lease[k][i].owner = c
               PROVE  i \in reset \/ ActiveAt(lease[k][i], x.age)
    BY <1>1, <1>4, <1>5 DEF FoundActive, ActiveAt, SlotsOf
  <2>1. lease[k][i].left \in Int
    BY DEF LeaseInv, LeasesTyped, LeaseOf
  <2> QED  BY <1>4, <2>1, NobodyCalls, TimesPositive DEF ActiveAt
<1>9. FoundOwn(c)'
  BY <1>4, <1>5 DEF FoundOwn
<1>10. LeasesTyped'
  BY <1>1 DEF LeaseInv, LeasesTyped
<1>11. CallerExact(c)' /\ GapExact'
  BY <1>1, <1>6, <1>7, <1>8, <1>9, GapStays DEF CallerExact
<1>12. x.at \notin {"idle", "dead"} => x.kind \in Providers
  BY <1>4
<1> QED  BY <1>1, <1>3, <1>4, <1>10, <1>11, <1>12, OneCall

LEMMA NobodysLease == NoLease \in LeaseOf /\ NoLease.owner = Nobody
BY TimesPositive DEF NoLease, LeaseOf, Over

LEMMA ResetKept ==
    ASSUME LeaseInv, NEW c \in Callers, NEW i \in call[c].reset, ResetExpired(c, i)
    PROVE  LeaseInv'
<1> DEFINE k == call[c].kind
           x == [call[c] EXCEPT !.reset = @ \ {i}]
<1>1. /\ call[c] \in CallOf /\ call[c].at = "asking" /\ k \in Providers
      /\ UNCHANGED <<state, quiet>> /\ lease' = [lease EXCEPT ![k][i] = NoLease]
      /\ call' = [call EXCEPT ![c] = x]
  BY CallType DEF ResetExpired
<1>2. /\ x \in CallOf /\ x.at = "asking" /\ x.kind = k /\ x.reset = call[c].reset \ {i}
      /\ x.age = call[c].age
  BY <1>1 DEF CallOf
<1> HIDE DEF x
<1>3. call'[c] = x
  BY <1>1, CallType
<1>4. i \in SlotsOf(k) /\ k \in Providers
  BY <1>1, CallType DEF CallerExact, FoundActive
<1>5. /\ LeasesTyped'
      /\ \A j \in Providers : \A n \in SlotsOf(j) :
             lease'[j][n] = IF j = k /\ n = i THEN NoLease ELSE lease[j][n]
  <2>1. NoLease \in LeaseOf /\ lease' = [lease EXCEPT ![k][i] = NoLease]
    BY <1>1, NobodysLease
  <2> HIDE DEF k
  <2> QED  BY <1>4, <2>1, OneSlotWritten
<1>6. \A j \in Providers : \A n \in SlotsOf(j) :
         lease'[j][n].owner \in Callers =>
             lease'[j][n] = lease[j][n] /\ ~(j = k /\ n = i)
  BY <1>5, NobodysLease, NobodyCalls
<1> HIDE DEF k
<1>7. InUse(c)'
  BY <1>1, <1>6, CallType DEF CallerExact, InUse, Away
<1>8. OneSlot(c)'
  BY <1>6, CallType DEF CallerExact, OneSlot
<1>9. FoundActive(c)'
  <2>1. /\ call[c].reset \subseteq SlotsOf(k)
        /\ \A n \in SlotsOf(k) : lease[k][n].owner = c =>
               n \in call[c].reset \/ ActiveAt(lease[k][n], call[c].age)
    BY <1>1, CallType DEF CallerExact, FoundActive, k
  <2> QED  BY <1>2, <1>3, <1>4, <1>6, <2>1 DEF FoundActive, ActiveAt, SlotsOf
<1>10. FoundOwn(c)'
  BY <1>2, <1>3 DEF FoundOwn
<1>11. CallerExact(c)' /\ GapExact'
  BY <1>1, <1>7, <1>8, <1>9, <1>10, GapStays DEF CallerExact
<1>12. x.at \notin {"idle", "dead"} => x.kind \in Providers
  BY <1>2, <1>4
<1>13. \A j \in Providers : \A n \in SlotsOf(j) :
          lease'[j][n].owner \in Callers \ {c} => lease'[j][n] = lease[j][n]
  BY <1>6
<1> QED  BY <1>1, <1>2, <1>5, <1>11, <1>12, <1>13, OneCall

LEMMA AcquiredKept ==
    ASSUME LeaseInv, NEW c \in Callers, Acquired(c)
    PROVE  LeaseInv'
<1> DEFINE k == call[c].kind
           l == [owner |-> c, left |-> CallLease - call[c].age, forgotten |-> FALSE]
           x == [call[c] EXCEPT !.at = "admitted", !.age = 0]
           t == IF Gap[k] > 0 THEN Gap[k] - call[c].age ELSE Over
<1>1. /\ call[c] \in CallOf /\ call[c].at = "asking" /\ call[c].reset = {}
      /\ k \in Providers /\ call[c].age \in 0..Delay
  BY CallType DEF Acquired, CallOf
<1>2. PICK i \in Open(c) : lease' = [lease EXCEPT ![k][i] = l]
  BY DEF Acquired
<1>3. /\ call' = [call EXCEPT ![c] = x] /\ state' = [state EXCEPT ![k].next = t]
      /\ quiet' = [quiet EXCEPT ![k] = 0]
  BY CallType DEF Acquired
<1>4. i \in SlotsOf(k)
  BY <1>2 DEF Open
<1>5. l \in LeaseOf /\ l.owner = c
  BY <1>1, TimesPositive DEF LeaseOf
<1>6. x \in CallOf /\ x.at = "admitted" /\ x.kind = k
  <2>1. 0 \in 0..Delay
    BY TimesPositive
  <2> QED  BY <1>1, <2>1 DEF CallOf
<1>7. \A n \in SlotsOf(k) : lease[k][n].owner = c => n = i
  <2> SUFFICES ASSUME NEW n \in SlotsOf(k), lease[k][n].owner = c PROVE n = i
    OBVIOUS
  <2>1. ActiveAt(lease[k][n], call[c].age)
    BY <1>1, CallType DEF CallerExact, FoundActive
  <2>2. lease[k][i].owner = c
    BY <1>2, <2>1 DEF Open
  <2> QED  BY <1>1, <1>4, <2>2, CallType DEF CallerExact, OneSlot
<1>8. t \in Int /\ (Gap[k] > 0 => t >= Gap[k] - Delay)
  BY <1>1, TimesPositive DEF Over
<1> HIDE DEF l, x, t, k
<1>9. /\ LeasesTyped'
      /\ \A j \in Providers : \A n \in SlotsOf(j) :
             lease'[j][n] = IF j = k /\ n = i THEN l ELSE lease[j][n]
  <2>1. lease' = [lease EXCEPT ![k][i] = l]
    BY <1>2
  <2>2. k \in Providers /\ i \in SlotsOf(k) /\ l \in LeaseOf
    BY <1>1, <1>4, <1>5
  <2> QED  BY <2>1, <2>2, OneSlotWritten
<1>10. call'[c] = x
  BY <1>3, CallType
<1>11. InUse(c)'
  BY <1>1, <1>6, <1>9, <1>10, CallType DEF CallerExact, InUse, Away
<1>12. OneSlot(c)'
  BY <1>7, <1>9, CallType DEF CallerExact, OneSlot
<1>13. FoundActive(c)' /\ FoundOwn(c)'
  BY <1>6, <1>10 DEF FoundActive, FoundOwn
<1>14. GapExact'
  <2>1. state \in [Providers -> [cooldown : Int, next : Int]] /\ quiet \in [Providers -> Nat]
    BY DEF LeaseInv, GapExact
  <2> DEFINE s == [state[k] EXCEPT !.next = t]
  <2>2. s \in [cooldown : Int, next : Int] /\ s.next = t
    BY <1>1, <1>8, <2>1
  <2>3. state' = [state EXCEPT ![k] = s]
    BY <1>3, <2>1
  <2> HIDE DEF s
  <2>4. \A j \in Providers : /\ state'[j] = IF j = k THEN s ELSE state[j]
                             /\ quiet'[j] = IF j = k THEN 0 ELSE quiet[j]
    BY <1>3, <2>1, <2>3
  <2>5. /\ state' \in [Providers -> [cooldown : Int, next : Int]]
        /\ quiet' \in [Providers -> Nat]
    BY <1>3, <2>1, <2>2, <2>3
  <2>6. ASSUME NEW j \in Providers
        PROVE  quiet'[j] >= Gap[j] \/ state'[j].next + quiet'[j] >= Gap[j] - Delay
    <3>1. CASE j = k
      BY <1>1, <1>8, <2>2, <2>4, <3>1, TimesPositive
    <3>2. CASE j # k
      BY <2>4, <3>2 DEF LeaseInv, GapExact
    <3> QED  BY <3>1, <3>2
  <2> QED  BY <2>5, <2>6 DEF GapExact
<1>15. \A j \in Providers : \A n \in SlotsOf(j) :
          lease'[j][n].owner \in Callers \ {c} => lease'[j][n] = lease[j][n]
  BY <1>5, <1>9
<1>16. CallerExact(c)'
  BY <1>11, <1>12, <1>13 DEF CallerExact
<1> QED  BY <1>1, <1>3, <1>6, <1>9, <1>14, <1>15, <1>16, OneCall

(* Between the admission and the release the lease is not touched. *)
LEMMA CallKept ==
    ASSUME LeaseInv, NEW c \in Callers,
           \/ Enter(c) \/ Refuse(c) \/ Returns(c)
           \/ Succeeds(c) \/ MarkSuccess(c) \/ QuotaUsedUp(c) \/ MarkQuota(c)
    PROVE  LeaseInv'
<1>1. call[c] \in CallOf /\ (call[c].at \notin {"idle", "dead"} => call[c].kind \in Providers)
  BY CallType
<1>2. ASSUME NEW at \in {"calling", "succeeded", "spent", "releasing"}, Step(c, at),
             call[c].at \notin Away, UNCHANGED <<lease, state, quiet>>
      PROVE  LeaseInv'
  <2> DEFINE x == [call[c] EXCEPT !.at = at]
  <2>1. x \in CallOf /\ x.kind = call[c].kind /\ x.at = at
    BY <1>1 DEF CallOf
  <2>2. call' = [call EXCEPT ![c] = x]
    BY <1>2, CallType DEF Step
  <2> HIDE DEF x
  <2>3. x.at \notin Away \cup {"freeing"}
    BY <2>1 DEF Away
  <2> QED  BY <1>2, <2>1, <2>2, <2>3, GoesOn, GapStays
<1>3. ASSUME Leaves(c), call[c].at \notin Away, UNCHANGED lease, GapExact'
      PROVE  LeaseInv'
  <2> DEFINE x == [call[c] EXCEPT !.at = "releasing", !.age = 0]
  <2>1. x \in CallOf /\ x.kind = call[c].kind /\ x.at = "releasing"
    <3>1. 0 \in 0..Delay
      BY TimesPositive
    <3> QED  BY <1>1, <3>1 DEF CallOf
  <2>2. call' = [call EXCEPT ![c] = x]
    BY <1>3, CallType DEF Leaves
  <2> HIDE DEF x
  <2>3. x.at \notin Away \cup {"freeing"}
    BY <2>1 DEF Away
  <2> QED  BY <1>3, <2>1, <2>2, <2>3, GoesOn
<1>4. CASE Enter(c) \/ Refuse(c) \/ Succeeds(c) \/ QuotaUsedUp(c)
  BY <1>2, <1>4 DEF Enter, Refuse, Succeeds, QuotaUsedUp, Away
<1>5. CASE Returns(c)
  BY <1>3, <1>5, GapStays DEF Returns, Away
<1>6. CASE MarkSuccess(c)
  <2>1. GapExact'
    <3>1. Over \in Int
      BY TimesPositive DEF Over
    <3>2. call[c].kind \in Providers /\ UNCHANGED quiet
          /\ state' = [state EXCEPT ![call[c].kind].cooldown = Over]
      BY <1>1, <1>6 DEF MarkSuccess
    <3> QED  BY <3>1, <3>2, CooldownWritten
  <2> QED  BY <1>3, <1>6, <2>1 DEF MarkSuccess, Away
<1>7. CASE MarkQuota(c)
  <2>1. QuotaCooldown - call[c].age \in Int
    BY <1>1, TimesPositive DEF CallOf
  <2>2. GapExact'
    BY <1>1, <1>7, <2>1, CooldownWritten DEF MarkQuota
  <2> QED  BY <1>3, <1>7, <2>2 DEF MarkQuota, Away
<1> QED  BY <1>4, <1>5, <1>6, <1>7

LEMMA NotAcquiredKept ==
    ASSUME LeaseInv, NEW c \in Callers, NotAcquired(c)
    PROVE  LeaseInv'
<1>1. call[c].at = "asking" /\ Ended(c) /\ UNCHANGED <<lease, state, quiet>>
  BY DEF NotAcquired
<1>2. LeasesTyped'
  BY <1>1 DEF LeaseInv, LeasesTyped
<1>3. \A k \in Providers : \A i \in SlotsOf(k) :
         lease[k][i].owner = c => (lease[k][i].left > 0 => lease[k][i].forgotten)
  BY <1>1, CallType DEF CallerExact, InUse, Away
<1> QED  BY <1>1, <1>2, <1>3, Ends

LEMMA FindOwnKept ==
    ASSUME LeaseInv, NEW c \in Callers, FindOwn(c)
    PROVE  LeaseInv'
<1> DEFINE k == call[c].kind
<1>1. /\ call[c].at = "releasing" /\ k \in Providers /\ call[c] \in CallOf
      /\ UNCHANGED <<lease, state, quiet>>
  BY CallType DEF FindOwn
<1>2. LeasesTyped'
  BY <1>1 DEF LeaseInv, LeasesTyped
<1>3. CASE OwnSlots(c) = {}
  <2>1. \A j \in Providers : \A i \in SlotsOf(j) :
           lease[j][i].owner = c => (lease[j][i].left > 0 => lease[j][i].forgotten)
    BY <1>3, CallType DEF CallerExact, InUse, OwnSlots
  <2>2. Ended(c)
    BY <1>3 DEF FindOwn
  <2> QED  BY <1>1, <1>2, <2>1, <2>2, Ends
<1>4. CASE OwnSlots(c) # {}
  <2>1. PICK i \in OwnSlots(c) : call' = [call EXCEPT ![c].at = "freeing", ![c].slot = i]
    BY <1>4 DEF FindOwn
  <2> DEFINE x == [call[c] EXCEPT !.at = "freeing", !.slot = i]
  <2>2. i \in SlotsOf(k) /\ i \in Nat /\ lease[k][i].owner = c
    BY DEF OwnSlots, SlotsOf
  <2>3. x \in CallOf /\ x.at = "freeing" /\ x.kind = k /\ x.slot = i
    BY <1>1, <2>2 DEF CallOf
  <2>4. call' = [call EXCEPT ![c] = x]
    BY <2>1, CallType
  <2> HIDE DEF x
  <2>5. call'[c] = x
    BY <2>4, CallType
  <2>6. InUse(c)'
    BY <1>1, <2>3, <2>5, CallType DEF CallerExact, InUse, Away
  <2>7. OneSlot(c)'
    BY <1>1, CallType DEF CallerExact, OneSlot
  <2>8. FoundActive(c)'
    BY <2>3, <2>5 DEF FoundActive
  <2>9. FoundOwn(c)'
    <3>1. \A n \in SlotsOf(k) : lease[k][n].owner = c => n = i
      BY <1>1, <2>2, CallType DEF CallerExact, OneSlot
    <3> QED  BY <1>1, <2>2, <2>3, <2>5, <3>1 DEF FoundOwn, SlotsOf
  <2>10. CallerExact(c)' /\ GapExact'
    BY <1>1, <2>6, <2>7, <2>8, <2>9, GapStays DEF CallerExact
  <2> QED  BY <1>1, <1>2, <2>3, <2>4, <2>10, OneCall
<1> QED  BY <1>3, <1>4

LEMMA FreeOwnKept ==
    ASSUME LeaseInv, NEW c \in Callers, FreeOwn(c)
    PROVE  LeaseInv'
<1> DEFINE k == call[c].kind
           i == call[c].slot
<1>1. /\ call[c].at = "freeing" /\ k \in Providers /\ Ended(c) /\ UNCHANGED <<state, quiet>>
      /\ lease' = [lease EXCEPT ![k][i] = NoLease]
  BY CallType DEF FreeOwn
<1>2. i \in SlotsOf(k) /\ \A n \in SlotsOf(k) : lease[k][n].owner = c => n = i
  BY <1>1, CallType DEF CallerExact, FoundOwn
<1>3. \A j \in Providers : \A n \in SlotsOf(j) :
         lease[j][n].owner = c => j = k \/ (lease[j][n].left > 0 => lease[j][n].forgotten)
  BY CallType DEF CallerExact, InUse
<1> HIDE DEF k, i
<1>4. /\ LeasesTyped'
      /\ \A j \in Providers : \A n \in SlotsOf(j) :
             lease'[j][n] = IF j = k /\ n = i THEN NoLease ELSE lease[j][n]
  BY <1>1, <1>2, NobodysLease, OneSlotWritten
<1> QED  BY <1>1, <1>2, <1>3, <1>4, NobodysLease, NobodyCalls, Ends

(* Leases that are left behind are no longer any call's. *)
LEMMA ForgottenLeases ==
    ASSUME LeaseInv, NEW callers \in SUBSET Callers, lease' = Forgotten(callers)
    PROVE  /\ LeasesTyped'
           /\ \A k \in Providers : \A i \in SlotsOf(k) :
                 /\ lease'[k][i].owner = lease[k][i].owner
                 /\ lease[k][i].owner \in callers => lease'[k][i].forgotten
                 /\ lease[k][i].owner \notin callers => lease'[k][i] = lease[k][i]
<1>1. \A k \in Providers : \A i \in SlotsOf(k) : lease[k][i] \in LeaseOf
  BY DEF LeaseInv, LeasesTyped
<1>2. /\ DOMAIN lease' = Providers
      /\ \A k \in Providers : DOMAIN lease'[k] = SlotsOf(k)
      /\ \A k \in Providers : \A i \in SlotsOf(k) :
            lease'[k][i] = IF lease[k][i].owner \in callers
                           THEN [lease[k][i] EXCEPT !.forgotten = TRUE] ELSE lease[k][i]
  BY DEF Forgotten
<1>4. \A k \in Providers : \A i \in SlotsOf(k) :
         /\ lease'[k][i] \in LeaseOf
         /\ lease'[k][i].owner = lease[k][i].owner
         /\ lease[k][i].owner \in callers => lease'[k][i].forgotten
         /\ lease[k][i].owner \notin callers => lease'[k][i] = lease[k][i]
  <2> TAKE k \in Providers
  <2> TAKE i \in SlotsOf(k)
  <2> DEFINE f == [lease[k][i] EXCEPT !.forgotten = TRUE]
  <2>1. f \in LeaseOf /\ f.owner = lease[k][i].owner /\ f.forgotten = TRUE
    BY <1>1 DEF LeaseOf
  <2>2. lease'[k][i] = IF lease[k][i].owner \in callers THEN f ELSE lease[k][i]
    BY <1>2
  <2> HIDE DEF f
  <2> QED  BY <1>1, <2>1, <2>2
<1> QED  BY <1>2, <1>4 DEF LeasesTyped, SlotsOf

LEMMA ReleaseFailsKept ==
    ASSUME LeaseInv, NEW c \in Callers, ReleaseFails(c)
    PROVE  LeaseInv'
<1>1. lease' = Forgotten({c}) /\ Ended(c) /\ UNCHANGED <<state, quiet>>
  BY DEF ReleaseFails
<1>2. {c} \in SUBSET Callers
  OBVIOUS
<1>3. /\ LeasesTyped'
      /\ \A k \in Providers : \A i \in SlotsOf(k) :
            /\ lease'[k][i].owner = lease[k][i].owner
            /\ lease[k][i].owner = c => lease'[k][i].forgotten
            /\ lease[k][i].owner # c => lease'[k][i] = lease[k][i]
  BY <1>1, <1>2, ForgottenLeases
<1>4. \A k \in Providers : \A i \in SlotsOf(k) :
         /\ lease'[k][i].owner \in Callers \ {c} => lease'[k][i] = lease[k][i]
         /\ lease'[k][i].owner = c =>
                lease[k][i].owner = c /\ (lease'[k][i].left > 0 => lease'[k][i].forgotten)
  BY <1>3
<1> QED  BY <1>1, <1>3, <1>4, Ends

LEMMA WorkerDiesKept ==
    ASSUME LeaseInv, NEW w \in Workers, WorkerDies(w)
    PROVE  LeaseInv'
<1> DEFINE callers == {c \in Callers : call[c].home = w}
           dead == [IdleCall EXCEPT !.at = "dead"]
<1>1. dead \in CallOf /\ dead.at = "dead"
  BY TimesPositive DEF IdleCall, CallOf
<1>2. /\ lease' = Forgotten(callers) /\ UNCHANGED <<state, quiet>>
      /\ call' = [c \in Callers |-> IF call[c].home = w THEN dead ELSE call[c]]
  BY DEF WorkerDies
<1> HIDE DEF dead
<1>3. /\ LeasesTyped'
      /\ \A k \in Providers : \A i \in SlotsOf(k) :
            /\ lease'[k][i].owner = lease[k][i].owner
            /\ lease[k][i].owner \in callers => lease'[k][i].forgotten
            /\ lease[k][i].owner \notin callers => lease'[k][i] = lease[k][i]
  <2>1. callers \in SUBSET Callers
    OBVIOUS
  <2> HIDE DEF callers
  <2> QED  BY <1>2, <2>1, ForgottenLeases
<1>4. CallsTyped'
  BY <1>1, <1>2 DEF LeaseInv, CallsTyped
<1>5. ASSUME NEW c \in Callers PROVE CallerExact(c)'
  <2>1. CASE call[c].home = w
    <3>1. call'[c].at = "dead" /\ c \in callers
      BY <1>1, <1>2, <2>1
    <3>2. InUse(c)'
      BY <1>3, <3>1 DEF InUse
    <3>3. OneSlot(c)'
      BY <1>3, CallType DEF CallerExact, OneSlot
    <3>4. FoundActive(c)' /\ FoundOwn(c)'
      BY <3>1 DEF FoundActive, FoundOwn
    <3> QED  BY <3>2, <3>3, <3>4 DEF CallerExact
  <2>2. CASE call[c].home # w
    BY <1>2, <1>3, <2>2, OthersExact
  <2> QED  BY <2>1, <2>2
<1> QED  BY <1>2, <1>3, <1>4, <1>5, GapStays DEF LeaseInv

LEMMA TickKept == ASSUME LeaseInv, LeaseTick PROVE LeaseInv'
<1>1. \A t \in Int : /\ Later(t) \in Int /\ (Later(t) <= t \/ t < -Delay)
                     /\ Later(t) > 0 => t > 0
                     /\ t > -Delay => Later(t) = t - 1
  BY TimesPositive DEF Later, Over
<1>2. \A k \in Providers : \A i \in SlotsOf(k) :
         /\ lease[k][i] \in LeaseOf /\ lease'[k][i] \in LeaseOf
         /\ lease'[k][i].owner = lease[k][i].owner
         /\ lease'[k][i].forgotten = lease[k][i].forgotten
         /\ lease'[k][i].left = Later(lease[k][i].left)
  <2> TAKE k \in Providers
  <2> TAKE i \in SlotsOf(k)
  <2>1. lease[k][i] \in LeaseOf
    BY DEF LeaseInv, LeasesTyped
  <2>2. lease'[k][i] = [lease[k][i] EXCEPT !.left = Later(@)]
    BY DEF LeaseTick
  <2>3. Later(lease[k][i].left) \in Int
    BY <2>1, TimesPositive DEF LeaseOf, Later, Over
  <2> QED  BY <2>1, <2>2, <2>3 DEF LeaseOf
<1>3. LeasesTyped'
  <2>1. DOMAIN lease' = Providers /\ \A k \in Providers : DOMAIN lease'[k] = SlotsOf(k)
    BY DEF LeaseTick
  <2> QED  BY <1>2, <2>1 DEF LeasesTyped, SlotsOf
<1>4. \A c \in Callers :
         /\ call[c] \in CallOf /\ call'[c] \in CallOf
         /\ call'[c].at = call[c].at /\ call'[c].kind = call[c].kind
         /\ call'[c].reset = call[c].reset /\ call'[c].slot = call[c].slot
         /\ call[c].at = "asking" => call'[c].age = call[c].age + 1
  <2> TAKE c \in Callers
  <2>1. call[c] \in CallOf
    BY CallType
  <2>2. CASE call[c].at \in {"asking", "spent"}
    <3>1. call'[c] = [call[c] EXCEPT !.age = @ + 1]
      BY <2>2 DEF LeaseTick
    <3>2. call[c].age + 1 \in 0..Delay
      BY <2>1, <2>2, TimesPositive DEF LeaseTick, CallOf
    <3> QED  BY <2>1, <3>1, <3>2 DEF CallOf
  <2>3. CASE call[c].at \notin {"asking", "spent"}
    BY <2>1, <2>3 DEF LeaseTick
  <2> QED  BY <2>2, <2>3
<1>5. CallsTyped'
  <2>1. call' \in [Callers -> CallOf]
    BY <1>4 DEF LeaseTick
  <2> QED  BY <1>4, <2>1 DEF LeaseInv, CallsTyped
<1>6. ASSUME NEW c \in Callers PROVE CallerExact(c)'
  <2>1. InUse(c)'
    <3>1. \A k \in Providers : \A i \in SlotsOf(k) :
             lease'[k][i].left > 0 => lease[k][i].left > 0
      BY <1>1, <1>2 DEF LeaseOf
    <3> QED  BY <1>2, <1>4, <3>1, CallType DEF CallerExact, InUse
  <2>2. OneSlot(c)'
    BY <1>2, CallType DEF CallerExact, OneSlot
  <2>3. FoundActive(c)'
    <3> SUFFICES ASSUME call[c].at = "asking" PROVE FoundActive(c)'
      BY <1>4 DEF FoundActive
    <3> DEFINE k == call[c].kind
    <3>1. /\ k \in Providers /\ call[c].reset \subseteq SlotsOf(k)
          /\ \A i \in SlotsOf(k) : lease[k][i].owner = c =>
                 i \in call[c].reset \/ ActiveAt(lease[k][i], call[c].age)
      BY CallType DEF CallerExact, FoundActive
    <3>2. call'[c].age = call[c].age + 1 /\ call[c].age \in 0..Delay /\ call'[c].kind = k
      BY <1>4 DEF CallOf
    <3>3. ASSUME NEW i \in SlotsOf(k), lease[k][i].owner = c, ActiveAt(lease[k][i], call[c].age)
          PROVE  lease'[k][i].left + call'[c].age > 0 /\ lease'[k][i].owner # Nobody
      <4>1. lease[k][i].left + call[c].age > 0 /\ lease[k][i].left \in Int
        BY <1>2, <3>1, <3>3 DEF ActiveAt, LeaseOf
      <4>2. lease'[k][i].left = lease[k][i].left - 1
        BY <1>1, <1>2, <3>1, <3>2, <4>1, TimesPositive
      <4> QED  BY <1>2, <3>1, <3>2, <3>3, <4>1, <4>2, NobodyCalls
    <3> HIDE DEF k
    <3>4. \A i \in SlotsOf(k) : lease'[k][i].owner = c =>
             \/ i \in call[c].reset
             \/ lease'[k][i].left + call'[c].age > 0 /\ lease'[k][i].owner # Nobody
      BY <1>2, <3>1, <3>3
    <3> QED  BY <1>4, <3>1, <3>2, <3>4 DEF FoundActive, ActiveAt, SlotsOf
  <2>4. FoundOwn(c)'
    BY <1>2, <1>4, CallType DEF CallerExact, FoundOwn, SlotsOf
  <2> QED  BY <2>1, <2>2, <2>3, <2>4 DEF CallerExact
<1>7. GapExact'
  <2>1. /\ state \in [Providers -> [cooldown : Int, next : Int]] /\ quiet \in [Providers -> Nat]
        /\ \A k \in Providers :
              quiet[k] >= Gap[k] \/ state[k].next + quiet[k] >= Gap[k] - Delay
    BY DEF LeaseInv, GapExact
  <2>2. \A k \in Providers :
           /\ state'[k] \in [cooldown : Int, next : Int]
           /\ state'[k].next = Later(state[k].next)
    BY <1>1, <2>1, TimesPositive DEF LeaseTick, Later, Over
  <2>3. \A k \in Providers : quiet'[k] = IF quiet[k] < Gap[k] THEN quiet[k] + 1 ELSE Gap[k]
    BY DEF LeaseTick
  <2>4. /\ state' \in [Providers -> [cooldown : Int, next : Int]]
        /\ quiet' \in [Providers -> Nat]
    BY <2>1, <2>2, <2>3, TimesPositive DEF LeaseTick
  <2>5. ASSUME NEW k \in Providers
        PROVE  quiet'[k] >= Gap[k] \/ state'[k].next + quiet'[k] >= Gap[k] - Delay
    <3>1. /\ quiet[k] \in Nat /\ Gap[k] \in Nat /\ Delay \in Nat /\ state[k].next \in Int
          /\ Later(state[k].next) \in Int /\ Later(state[k].next) >= state[k].next - 1
      BY <2>1, TimesPositive DEF Later, Over
    <3>2. CASE quiet[k] < Gap[k]
      BY <2>1, <2>2, <2>3, <3>1, <3>2
    <3>3. CASE quiet[k] >= Gap[k]
      BY <2>3, <3>1, <3>3
    <3> QED  BY <3>1, <3>2, <3>3
  <2> QED  BY <2>4, <2>5 DEF GapExact
<1> QED  BY <1>3, <1>5, <1>6, <1>7 DEF LeaseInv

LEMMA NextLease == ASSUME LeaseInv, [LeaseNext]_leaseVars PROVE LeaseInv'
<1>1. CASE UNCHANGED leaseVars
  <2>1. LeasesTyped' /\ CallsTyped' /\ GapExact'
    BY <1>1 DEF leaseVars, LeaseInv, LeasesTyped, CallsTyped, GapExact
  <2>2. \A c \in Callers : CallerExact(c)'
    BY <1>1, <2>1, OthersExact DEF leaseVars
  <2> QED  BY <2>1, <2>2 DEF LeaseInv
<1>2. ASSUME NEW c \in Callers, CallerStep(c) PROVE LeaseInv'
  BY <1>2, AskKept, ResetKept, AcquiredKept, NotAcquiredKept, CallKept, FindOwnKept, FreeOwnKept,
     ReleaseFailsKept DEF CallerStep
<1> QED  BY <1>1, <1>2, WorkerDiesKept, TickKept DEF LeaseNext

(* LeaseInv holds in every reachable state. *)
THEOREM LeaseInvariance == LeaseSpec => []LeaseInv
<1> QED  BY InitLease, NextLease, PTL DEF LeaseSpec

(* Whatever reads and writes of other executions come between those of a call,
   an execution has one slot of a provider at most, and a lease that has not run
   out is held by an execution that is at its call, unless its release failed or
   its process died (withProviderSlot, releaseProviderSlot). *)
THEOREM Leases == LeaseSpec => []LeasesExact
<1>1. ASSUME LeaseInv PROVE LeasesExact
  <2>1. ASSUME NEW k \in Providers, NEW i \in SlotsOf(k),
               lease[k][i].left > 0, lease[k][i].owner # Nobody, ~lease[k][i].forgotten
        PROVE  /\ call[lease[k][i].owner].kind = k
               /\ call[lease[k][i].owner].at \notin {"idle", "asking", "dead"}
    <3>1. lease[k][i].owner \in Callers
      BY <1>1, <2>1 DEF LeaseInv, LeasesTyped, LeaseOf
    <3> QED  BY <1>1, <2>1, <3>1 DEF LeaseInv, CallerExact, InUse, Away
  <2>2. LeaseOnlyInUse
    BY <2>1 DEF LeaseOnlyInUse
  <2>3. OneSlotPerOwner
    BY <1>1 DEF LeaseInv, CallerExact, OneSlot, OneSlotPerOwner
  <2> QED  BY <2>2, <2>3 DEF LeasesExact
<1> QED  BY <1>1, LeaseInvariance, PTL

(* A call passes from asking to admitted in no step but its own admission. *)
LEMMA AdmittedByAcquiring ==
    ASSUME LeaseInv, [LeaseNext]_leaseVars, NEW c \in Callers,
           call[c].at = "asking", call'[c].at = "admitted"
    PROVE  Acquired(c)
<1>1. call \in [Callers -> CallOf] /\ call'[c] # call[c]
  BY CallType
<1>2. ASSUME NEW d \in Callers, NEW x, call' = [call EXCEPT ![d] = x] PROVE d = c /\ call'[c] = x
  BY <1>1, <1>2
<1>3. ASSUME NEW d \in Callers, CallerStep(d) PROVE d = c
  BY <1>1, <1>3 DEF CallerStep, Ask, ResetExpired, Acquired, NotAcquired, Enter, Refuse, Returns,
     Succeeds, MarkSuccess, QuotaUsedUp, MarkQuota, FindOwn, FreeOwn, ReleaseFails, Step, Ended, Leaves
<1>4. ASSUME CallerStep(c) PROVE Acquired(c)
  <2>1. ASSUME NEW i \in call[c].reset, ResetExpired(c, i) PROVE FALSE
    <3>1. call' = [call EXCEPT ![c] = [call[c] EXCEPT !.reset = @ \ {i}]]
      BY <1>1, <2>1 DEF ResetExpired
    <3>2. [call[c] EXCEPT !.reset = @ \ {i}].at = call[c].at
      BY CallType DEF CallOf
    <3> QED  BY <1>2, <3>1, <3>2
  <2>2. ASSUME NotAcquired(c) PROVE FALSE
    <3>1. [IdleCall EXCEPT !.home = call[c].home].at = "idle"
      BY DEF IdleCall
    <3> QED  BY <1>2, <2>2, <3>1 DEF NotAcquired, Ended
  <2> QED  BY <1>4, <2>1, <2>2 DEF CallerStep, Ask, Enter, Refuse, Returns, Succeeds, MarkSuccess,
              QuotaUsedUp, MarkQuota, FindOwn, FreeOwn, ReleaseFails
<1>5. ASSUME NEW w \in Workers, WorkerDies(w) PROVE FALSE
  <2>1. [IdleCall EXCEPT !.at = "dead"].at = "dead"
    BY DEF IdleCall
  <2> QED  BY <1>1, <1>5, <2>1 DEF WorkerDies
<1>6. ASSUME LeaseTick PROVE FALSE
  <2>1. [call[c] EXCEPT !.age = @ + 1].at = call[c].at
    BY CallType DEF CallOf
  <2> QED  BY <1>1, <1>6, <2>1 DEF LeaseTick
<1> QED  BY <1>1, <1>3, <1>4, <1>5, <1>6 DEF LeaseNext, leaseVars

(* Two calls to a provider, of any two processes, are admitted the gap apart,
   less the time from reading the clock to the commit (tryAcquire). *)
THEOREM Spacing == LeaseSpec => SpacedByGap
<1>1. ASSUME LeaseInv, [LeaseNext]_leaseVars, NEW c \in Callers,
             call[c].at = "asking", call'[c].at = "admitted"
      PROVE  quiet[call[c].kind] >= Gap[call[c].kind] - Delay
  <2> DEFINE k == call[c].kind
  <2>1. k \in Providers /\ call[c].age \in 0..Delay
    BY <1>1, CallType DEF CallOf
  <2>2. state[k].next + call[c].age <= 0
    BY <1>1, AdmittedByAcquiring DEF Acquired, Admits
  <2>3. /\ state[k].next \in Int /\ quiet[k] \in Nat /\ Gap[k] \in Nat /\ Delay \in Nat
        /\ quiet[k] >= Gap[k] \/ state[k].next + quiet[k] >= Gap[k] - Delay
    BY <1>1, <2>1, TimesPositive DEF LeaseInv, GapExact
  <2> HIDE DEF k
  <2> QED  BY <2>1, <2>2, <2>3 DEF k
<1>2. LeaseInv /\ [LeaseNext]_leaseVars
         => (\A c \in Callers : call[c].at = "asking" /\ call'[c].at = "admitted"
                => quiet[call[c].kind] >= Gap[call[c].kind] - Delay)
  BY <1>1
<1> QED  BY <1>2, LeaseInvariance, PTL DEF LeaseSpec, SpacedByGap

-----------------------------------------------------------------------------
(* The paid plan of an account *)

Expires(u, t) == u.status = "canceled" /\ u.expires # Nothing /\ u.expires <= t

(* What the account may still take, were it t o'clock. *)
Room(u, t) == IF Expires(u, t) THEN 0 ELSE Left(UsageOf(u))

(* A summary that is to be written is what was read, with its usage filled in,
   or the account without its plan. *)
SummaryOK(s) ==
    /\ s.write.usage \in Usage
    /\ s.write.usage.reserved = UsageOf(s.read).reserved
    /\ \/ s.write = [s.read EXCEPT !.usage = UsageOf(s.read)]
       \/ s.write.status = "inactive" /\ s.write.usage.included = 0

(* Once per processed event, and once per summary written over a change *)
Granted == Grant * (Cardinality(processed) + overwritten)

(* The time of an account *)
TimeExact == consumed + holds + Room(user, now) <= Granted

MemberInv ==
    /\ MemberTypeOK
    /\ IsFiniteSet(processed)
    /\ \A h \in Handlers : handler[h] # Nothing => handler[h].event \in sent
    /\ \A r \in Summaries : summary[r] # Nothing => SummaryOK(summary[r])
    /\ TimeExact

(* What is granted is a number that grows with what is counted. *)
LEMMA Grants ==
    ASSUME NEW n \in Nat, NEW m \in Nat
    PROVE  /\ Grant * (n + m) \in Nat /\ Grant \in Nat
           /\ Grant * (n + 1 + m) = Grant * (n + m) + Grant
           /\ Grant * (n + (m + 1)) = Grant * (n + m) + Grant
<1>1. Grant \in Nat /\ n + m \in Nat /\ n + 1 + m = (n + m) + 1 /\ n + (m + 1) = (n + m) + 1
  BY GrantIsNat
<1>2. \A a \in Nat : Grant * (a + 1) = Grant * a + Grant /\ Grant * a \in Nat
  BY <1>1
<1> QED  BY <1>1, <1>2

LEMMA UsageType ==
    ASSUME NEW u \in User
    PROVE  /\ UsageOf(u) \in Usage
           /\ u.usage # Nothing => UsageOf(u) = u.usage
           /\ u.usage = Nothing => UsageOf(u).reserved = 0
BY GrantIsNat DEF User, Usage, UsageOf

LEMMA LeftBounds ==
    ASSUME NEW g \in Usage
    PROVE  /\ Left(g) \in Nat /\ Left(g) <= Grant
           /\ Left(g) >= g.included - g.used - g.reserved
           /\ g.included = 0 => Left(g) = 0
           /\ Left(g) > 0 => Left(g) = g.included - g.used - g.reserved
BY GrantIsNat DEF Usage, Left, NotBelowZero

LEMMA RoomBounds ==
    ASSUME NEW u \in User, NEW t
    PROVE  Room(u, t) \in Nat /\ Room(u, t) <= Grant
BY UsageType, LeftBounds, GrantIsNat DEF Room

LEMMA WithUsage ==
    ASSUME NEW u \in User, NEW g \in Usage
    PROVE  LET v == [u EXCEPT !.usage = g]
           IN  /\ v \in User /\ v.usage = g /\ v.status = u.status /\ v.expires = u.expires
               /\ v.plan = u.plan /\ UsageOf(v) = g
<1> DEFINE v == [u EXCEPT !.usage = g]
<1>1. v \in User /\ v.usage = g /\ v.status = u.status /\ v.expires = u.expires /\ v.plan = u.plan
  BY DEF User
<1>2. g # Nothing
  BY NothingIsNoUsage
<1> HIDE DEF v
<1>3. UsageOf(v) = g
  BY <1>1, <1>2 DEF UsageOf
<1> QED  BY <1>1, <1>3 DEF v

(* The canonical reading has a usage, keeps what is reserved, leaves what there
   is room for, and is not to be read otherwise again. *)
LEMMA CanonicalIs ==
    ASSUME NEW u \in User
    PROVE  /\ Canonical(u) \in User /\ Canonical(u).usage \in Usage
           /\ Canonical(u).usage.reserved = UsageOf(u).reserved
           /\ Left(Canonical(u).usage) = Room(u, now)
           /\ ~Expires(Canonical(u), now)
           /\ \/ Canonical(u) = [u EXCEPT !.usage = UsageOf(u)]
              \/ Canonical(u).status = "inactive" /\ Canonical(u).usage.included = 0
<1>1. CASE ExpiredCanceled(u)
  <2> DEFINE f == [u EXCEPT !.plan = "free"]
             g == [UsageOf(f) EXCEPT !.included = 0]
             c == [u EXCEPT !.plan = "free", !.status = "inactive", !.usage = g]
  <2>1. f \in User /\ f.usage = u.usage
    BY DEF User
  <2>2. UsageOf(f) \in Usage /\ UsageOf(f).reserved = UsageOf(u).reserved
    <3> HIDE DEF f
    <3> QED  BY <2>1, UsageType
  <2>3. g \in Usage /\ g.included = 0 /\ g.reserved = UsageOf(u).reserved
    <3> HIDE DEF f
    <3> QED  BY <2>2 DEF Usage
  <2>4. c \in User /\ c.usage = g /\ c.status = "inactive"
    <3> HIDE DEF g
    <3> QED  BY <2>3 DEF User
  <2>5. Canonical(u) = c
    BY <1>1 DEF Canonical
  <2>6. Left(g) = 0 /\ Room(u, now) = 0
    BY <1>1, <2>3, LeftBounds DEF Room, Expires, ExpiredCanceled
  <2> HIDE DEF f, g, c
  <2> QED  BY <2>3, <2>4, <2>5, <2>6 DEF Expires
<1>2. CASE ~ExpiredCanceled(u)
  <2> DEFINE c == [u EXCEPT !.usage = UsageOf(u)]
  <2>1. Canonical(u) = c
    BY <1>2 DEF Canonical
  <2>2. c \in User /\ c.usage = UsageOf(u) /\ c.status = u.status /\ c.expires = u.expires
    BY UsageType, WithUsage
  <2> HIDE DEF c
  <2>3. ~Expires(u, now)
    BY <1>2 DEF Expires, ExpiredCanceled
  <2> QED  BY <2>1, <2>2, <2>3, UsageType DEF Expires, Room, c
<1> QED  BY <1>1, <1>2

(* What the properties say of the canonical reading. *)
LEMMA TimeIs ==
    ASSUME MemberInv PROVE GrantedOncePerEvent
<1>1. user \in User
  BY DEF MemberInv, MemberTypeOK
<1> QED  BY <1>1, CanonicalIs DEF MemberInv, TimeExact, Granted, GrantedOncePerEvent

LEMMA DriftIs ==
    ASSUME user \in User
    PROVE  MemberDrift = UsageOf(user).reserved - holds
BY CanonicalIs DEF MemberDrift

(* The same of the next state, whose time may be another *)
LEMMA DriftNext ==
    ASSUME user' \in User
    PROVE  MemberDrift' = UsageOf(user').reserved - holds'
<1> DEFINE u == user'
<1>0. u \in User
  OBVIOUS
<1>1. CASE ExpiredCanceled(user)'
  <2> DEFINE f == [u EXCEPT !.plan = "free"]
             g == [UsageOf(f) EXCEPT !.included = 0]
             c == [u EXCEPT !.plan = "free", !.status = "inactive", !.usage = g]
  <2>1. f \in User /\ f.usage = u.usage
    BY <1>0 DEF User
  <2>2. UsageOf(f) \in Usage /\ UsageOf(f).reserved = UsageOf(u).reserved
    <3> HIDE DEF f, u
    <3> QED  BY <1>0, <2>1, UsageType
  <2>3. g.reserved = UsageOf(u).reserved
    <3> HIDE DEF f
    <3> QED  BY <2>2 DEF Usage
  <2>4. c.usage = g
    <3> HIDE DEF g, u
    <3> QED  BY <1>0 DEF User
  <2>5. Canonical(user)' = c
    BY <1>1 DEF Canonical
  <2> HIDE DEF f, g, c
  <2> QED  BY <2>3, <2>4, <2>5 DEF MemberDrift
<1>2. CASE ~ExpiredCanceled(user)'
  <2> DEFINE c == [u EXCEPT !.usage = UsageOf(u)]
  <2>1. Canonical(user)' = c
    BY <1>2 DEF Canonical
  <2>2. c.usage = UsageOf(u)
    <3> HIDE DEF u
    <3> QED  BY <1>0 DEF User
  <2> HIDE DEF c
  <2> QED  BY <2>1, <2>2 DEF MemberDrift
<1> QED  BY <1>1, <1>2

LEMMA InitMember == ASSUME MemberInit PROVE MemberInv
<1>1. 0 \in Times
  BY GrantIsNat DEF Times
<1>2. [ends |-> Nothing, included |-> 0, used |-> 0, reserved |-> 0] \in Usage
  BY DEF Usage
<1>3. user \in User /\ (user.usage = Nothing \/ user.usage.included = 0) /\ user.plan = "free"
      /\ (user.usage # Nothing => user.usage.reserved = 0) /\ user.status = "inactive"
  BY <1>2 DEF MemberInit, User
<1>4. MemberTypeOK
  <2>1. stripe \in [Subs -> Subscription]
    BY <1>1 DEF MemberInit, Subscription
  <2> QED  BY <1>1, <1>3, <2>1 DEF MemberInit, MemberTypeOK
<1>5. UsageOf(user).reserved = 0 /\ Left(UsageOf(user)) = 0
  <2>1. UsageOf(user).reserved = 0 /\ UsageOf(user).included = 0
    BY <1>3 DEF UsageOf
  <2> QED  BY <1>3, <2>1, UsageType, LeftBounds
<1>6. TimeExact
  <2>1. Room(user, now) = 0
    BY <1>5 DEF Room
  <2>2. Cardinality(processed) = 0 /\ overwritten = 0
    BY FS_EmptySet DEF MemberInit
  <2> QED  BY <1>5, <2>1, <2>2, GrantIsNat DEF MemberInit, TimeExact, Granted
<1> QED  BY <1>4, <1>6, FS_EmptySet DEF MemberInit, MemberInv

(* Time passes at Stripe, and events and handlers come and go. *)
LEMMA StripeKept == ASSUME MemberInv, StripeStep PROVE MemberInv'
<1>0. MemberTypeOK
  BY DEF MemberInv
<1>1. UNCHANGED <<handler, processed, user, holds, consumed, summary, overwritten>>
  BY DEF StripeStep, Pay, Renew, Delete, PeriodPasses
<1>2. sent \subseteq sent' /\ sent' \subseteq Event /\ now' \in Times
      /\ stripe' \in [Subs -> Subscription]
  <2>1. ASSUME now < LastPeriod PROVE now + 1 \in Times
    BY <1>0, <2>1, GrantIsNat DEF MemberTypeOK, Times
  <2>2. stripe \in [Subs -> Subscription] /\ sent \subseteq Event /\ now \in Times
    BY <1>0 DEF MemberTypeOK
  <2>3. ASSUME NEW s \in Subs, Pay(s)
        PROVE  sent \subseteq sent' /\ sent' \subseteq Event /\ now' \in Times
               /\ stripe' \in [Subs -> Subscription]
    <3>1. now + 1 \in Times
      BY <2>1, <2>3 DEF Pay
    <3> QED  BY <2>2, <2>3, <3>1 DEF Pay, Event, Kinds, Subscription
  <2>4. ASSUME NEW s \in Subs, Renew(s)
        PROVE  sent \subseteq sent' /\ sent' \subseteq Event /\ now' \in Times
               /\ stripe' \in [Subs -> Subscription]
    <3>1. now + 1 \in Times
      BY <2>1, <2>4 DEF Renew
    <3>2. stripe[s] \in Subscription
      BY <2>2
    <3>3. [stripe[s] EXCEPT !.ends = now + 1] \in Subscription
      BY <3>1, <3>2 DEF Subscription
    <3>4. stripe' \in [Subs -> Subscription]
      BY <2>2, <2>4, <3>3 DEF Renew
    <3> QED  BY <2>2, <2>4, <3>1, <3>4 DEF Renew, Event, Kinds
  <2>5. ASSUME NEW s \in Subs, Delete(s)
        PROVE  sent \subseteq sent' /\ sent' \subseteq Event /\ now' \in Times
               /\ stripe' \in [Subs -> Subscription]
    <3>1. stripe[s] \in Subscription
      BY <2>2
    <3>2. [stripe[s] EXCEPT !.status = "canceled"] \in Subscription /\ stripe[s].ends \in Times
      BY <3>1 DEF Subscription
    <3>3. stripe' \in [Subs -> Subscription]
      BY <2>2, <2>5, <3>2 DEF Delete
    <3> QED  BY <2>2, <2>5, <3>2, <3>3 DEF Delete, Event, Kinds
  <2>6. ASSUME PeriodPasses
        PROVE  sent \subseteq sent' /\ sent' \subseteq Event /\ now' \in Times
               /\ stripe' \in [Subs -> Subscription]
    BY <2>1, <2>2, <2>6 DEF PeriodPasses
  <2> QED  BY <2>3, <2>4, <2>5, <2>6 DEF StripeStep
<1>3. Room(user, now') <= Room(user, now)
  <2>1. now' = now \/ now' = now + 1
    BY DEF StripeStep, Pay, Renew, Delete, PeriodPasses
  <2>2. user \in User /\ now \in Times
    BY <1>0 DEF MemberTypeOK
  <2>3. Left(UsageOf(user)) \in Nat
    BY <2>2, UsageType, LeftBounds
  <2>4. Expires(user, now) => Expires(user, now')
    BY <2>1, <2>2 DEF User, Times, Expires
  <2> QED  BY <2>3, <2>4 DEF Room
<1>4. TimeExact'
  <2>1. consumed + holds + Room(user, now) <= Granted
    BY DEF MemberInv, TimeExact
  <2>2. /\ consumed \in Nat /\ holds \in Nat /\ user \in User /\ Granted \in Nat
    BY <1>0, FS_CardinalityType, Grants DEF MemberInv, MemberTypeOK, Granted
  <2>3. Room(user, now) \in Nat /\ Room(user, now') \in Nat
    BY <2>2, RoomBounds
  <2>4. Granted' = Granted
    BY <1>1 DEF Granted
  <2>5. consumed + holds + Room(user, now') <= Granted
    BY <1>3, <2>1, <2>2, <2>3
  <2> QED  BY <1>1, <2>4, <2>5 DEF TimeExact
<1>5. MemberTypeOK'
  BY <1>0, <1>1, <1>2 DEF MemberTypeOK
<1> QED  BY <1>1, <1>2, <1>4, <1>5 DEF MemberInv, SummaryOK

(* Nothing is done to the account. *)
LEMMA AccountStays ==
    ASSUME MemberInv, UNCHANGED <<now, stripe, sent, processed, user, holds, consumed, overwritten>>,
           handler' \in [Handlers -> [event : Event, ends : Times] \cup {Nothing}],
           summary' \in [Summaries -> [read : User, write : User] \cup {Nothing}],
           \A h \in Handlers : handler'[h] # Nothing => handler'[h].event \in sent,
           \A r \in Summaries : summary'[r] # Nothing => SummaryOK(summary'[r])
    PROVE  MemberInv'
BY DEF MemberInv, MemberTypeOK, TimeExact, Granted, SummaryOK

LEMMA RetrieveKept ==
    ASSUME MemberInv, NEW h \in Handlers, NEW e \in sent, Retrieve(h, e)
    PROVE  MemberInv'
<1> DEFINE ends == IF e.kind \in PaidKinds THEN stripe[e.sub].ends ELSE e.ends
           x == [event |-> e, ends |-> ends]
<1>1. /\ handler \in [Handlers -> [event : Event, ends : Times] \cup {Nothing}]
      /\ e \in Event /\ stripe \in [Subs -> Subscription]
      /\ summary \in [Summaries -> [read : User, write : User] \cup {Nothing}]
  BY DEF MemberInv, MemberTypeOK
<1>2. ends \in Times
  BY <1>1 DEF Event, Subscription
<1>3. x \in [event : Event, ends : Times] /\ x.event = e
  <2> HIDE DEF ends
  <2> QED  BY <1>1, <1>2
<1>4. handler' = [handler EXCEPT ![h] = x]
  BY DEF Retrieve
<1> HIDE DEF x
<1>5. /\ handler' \in [Handlers -> [event : Event, ends : Times] \cup {Nothing}]
      /\ \A g \in Handlers : handler'[g] = IF g = h THEN x ELSE handler[g]
  BY <1>1, <1>3, <1>4
<1> QED  BY <1>1, <1>3, <1>5, AccountStays DEF Retrieve, MemberInv

LEMMA HandlerDone ==
    ASSUME MemberInv, NEW h \in Handlers, handler' = [handler EXCEPT ![h] = Nothing]
    PROVE  /\ handler' \in [Handlers -> [event : Event, ends : Times] \cup {Nothing}]
           /\ \A g \in Handlers : handler'[g] # Nothing => handler'[g].event \in sent
BY DEF MemberInv, MemberTypeOK

LEMMA HandlerThrowsKept ==
    ASSUME MemberInv, NEW h \in Handlers, HandlerThrows(h)
    PROVE  MemberInv'
BY HandlerDone, AccountStays DEF HandlerThrows, MemberInv, MemberTypeOK

LEMMA ReadSummaryKept ==
    ASSUME MemberInv, NEW r \in Summaries, ReadSummary(r)
    PROVE  MemberInv'
<1> DEFINE x == [read |-> user, write |-> Canonical(user)]
<1>1. /\ user \in User
      /\ handler \in [Handlers -> [event : Event, ends : Times] \cup {Nothing}]
      /\ summary \in [Summaries -> [read : User, write : User] \cup {Nothing}]
  BY DEF MemberInv, MemberTypeOK
<1>2. x \in [read : User, write : User] /\ SummaryOK(x)
  BY <1>1, CanonicalIs DEF SummaryOK
<1>3. summary' = [summary EXCEPT ![r] = x]
  BY DEF ReadSummary
<1> HIDE DEF x
<1>4. /\ summary' \in [Summaries -> [read : User, write : User] \cup {Nothing}]
      /\ \A s \in Summaries : summary'[s] = IF s = r THEN x ELSE summary[s]
  BY <1>1, <1>2, <1>3
<1> QED  BY <1>1, <1>2, <1>4, AccountStays DEF ReadSummary, MemberInv

(* The account changes: what has been taken, is held and may be taken stays
   within what the processed events have granted. *)
LEMMA AccountMoves ==
    ASSUME MemberInv, UNCHANGED <<now, stripe, sent>>, user' \in User,
           holds' \in Nat, consumed' \in Nat, overwritten' \in Nat,
           processed' \subseteq sent, IsFiniteSet(processed'),
           handler' \in [Handlers -> [event : Event, ends : Times] \cup {Nothing}],
           summary' \in [Summaries -> [read : User, write : User] \cup {Nothing}],
           \A h \in Handlers : handler'[h] # Nothing => handler'[h].event \in sent,
           \A r \in Summaries : summary'[r] # Nothing => SummaryOK(summary'[r]),
           consumed' + holds' + Room(user', now) <= Granted'
    PROVE  MemberInv'
BY DEF MemberInv, MemberTypeOK, TimeExact, SummaryOK

(* An event's patch keeps what is reserved and leaves one grant at most. *)
LEMMA PatchIs ==
    ASSUME MemberInv, NEW kind \in Kinds, NEW ends \in Times
    PROVE  /\ UserPatch(kind, ends) \in User
           /\ UsageOf(UserPatch(kind, ends)).reserved = UsageOf(user).reserved
<1>1. /\ user \in User /\ Canonical(user) \in User /\ Canonical(user).usage \in Usage
      /\ Canonical(user).usage.reserved = UsageOf(user).reserved
  BY CanonicalIs DEF MemberInv, MemberTypeOK
<1>2. ASSUME NEW used \in Nat
      PROVE  /\ ActivePatch(ends, used) \in User
             /\ UsageOf(ActivePatch(ends, used)).reserved = UsageOf(user).reserved
  <2> DEFINE n == Canonical(user).usage.reserved
             g == [ends |-> ends, included |-> Grant, used |-> used, reserved |-> n]
             u == [plan |-> "creator", status |-> "active", expires |-> ends, usage |-> g]
  <2>1. g \in Usage /\ g.reserved = n
    <3>1. n \in Nat
      BY <1>1 DEF Usage
    <3> HIDE DEF n
    <3> QED  BY <3>1 DEF Usage
  <2>2. u \in User /\ u.usage = g
    <3> HIDE DEF g
    <3> QED  BY <2>1 DEF User
  <2>3. ActivePatch(ends, used) = u
    BY DEF ActivePatch
  <2> HIDE DEF u, g
  <2> QED  BY <1>1, <2>1, <2>2, <2>3, UsageType, NothingIsNoUsage
<1>3. CASE kind = "checkout.session.completed"
  BY <1>2, <1>3 DEF UserPatch, CheckoutPatch
<1>4. CASE kind = "invoice.payment_succeeded"
  <2> DEFINE used == IF Canonical(user).usage.ends = ends THEN Canonical(user).usage.used ELSE 0
  <2>1. used \in Nat
    BY <1>1 DEF Usage
  <2>2. UserPatch(kind, ends) = ActivePatch(ends, used)
    BY <1>4 DEF UserPatch, RenewalPatch
  <2> HIDE DEF used
  <2> QED  BY <1>2, <2>1, <2>2
<1>5. CASE kind = "customer.subscription.deleted"
  <2> DEFINE plan == IF Canonical(user).plan = "free" THEN "creator" ELSE Canonical(user).plan
             u == [user EXCEPT !.plan = plan, !.status = "canceled", !.expires = ends]
  <2>1. plan \in {"free", "creator"}
    BY <1>1 DEF User
  <2>2. u \in User /\ u.usage = user.usage
    <3> HIDE DEF plan
    <3> QED  BY <1>1, <2>1 DEF User
  <2>3. UserPatch(kind, ends) = u
    BY <1>5 DEF UserPatch, CancellationPatch
  <2> HIDE DEF u
  <2> QED  BY <1>1, <2>2, <2>3, UsageType
<1> QED  BY <1>3, <1>4, <1>5 DEF Kinds

LEMMA ApplyKept ==
    ASSUME MemberInv, NEW h \in Handlers, Apply(h)
    PROVE  MemberInv'
<1> DEFINE e == handler[h].event
           u == UserPatch(e.kind, handler[h].ends)
<1>1. /\ handler[h] \in [event : Event, ends : Times] /\ e \in sent
      /\ handler' = [handler EXCEPT ![h] = Nothing]
      /\ UNCHANGED <<now, stripe, sent, holds, consumed, summary, overwritten>>
  BY DEF Apply, MemberInv, MemberTypeOK
<1>2. /\ summary \in [Summaries -> [read : User, write : User] \cup {Nothing}]
      /\ \A r \in Summaries : summary[r] # Nothing => SummaryOK(summary[r])
      /\ user \in User /\ holds \in Nat /\ consumed \in Nat /\ overwritten \in Nat
      /\ processed \subseteq sent /\ IsFiniteSet(processed)
  BY DEF MemberInv, MemberTypeOK
<1>3. CASE e \in processed
  BY <1>1, <1>2, <1>3, HandlerDone, AccountStays DEF Apply
<1>4. CASE e \notin processed
  <2>1. user' = u /\ processed' = processed \cup {e}
    BY <1>4 DEF Apply
  <2>2. u \in User /\ UsageOf(u).reserved = UsageOf(user).reserved
    BY <1>1, PatchIs DEF Event
  <2>3. Room(u, now) \in Nat /\ Room(u, now) <= Grant
    BY <2>2, RoomBounds
  <2>4. /\ Room(user, now) \in Nat
        /\ Cardinality(processed) \in Nat /\ IsFiniteSet(processed')
        /\ Cardinality(processed') = Cardinality(processed) + 1
    BY <1>2, <1>4, <2>1, RoomBounds, FS_CardinalityType, FS_AddElement
  <2>5. consumed + holds + Room(user, now) <= Granted
    BY DEF MemberInv, TimeExact
  <2>6. Granted' = Granted + Grant /\ Granted \in Nat
    BY <1>1, <1>2, <2>4, Grants DEF Granted
  <2>7. processed' \subseteq sent
    BY <1>1, <1>2, <2>1
  <2> HIDE DEF u, e
  <2>8. consumed' + holds' + Room(user', now) <= Granted'
    BY <1>1, <1>2, <2>1, <2>2, <2>3, <2>4, <2>5, <2>6, GrantIsNat
  <2> QED  BY <1>1, <1>2, <2>1, <2>2, <2>4, <2>7, <2>8, HandlerDone, AccountMoves
<1> QED  BY <1>3, <1>4

(* A render or a sync takes time, is charged it or gives it back: the canonical
   account is written with other figures. *)
LEMMA UsageMoves ==
    ASSUME MemberInv, NEW g \in Usage, user' = [Canonical(user) EXCEPT !.usage = g],
           UNCHANGED <<now, stripe, sent, handler, processed, summary, overwritten>>,
           holds' \in Nat, consumed' \in Nat,
           consumed' + holds' + Left(g) <= Granted
    PROVE  MemberInv'
<1>1. user \in User /\ Canonical(user) \in User /\ ~Expires(Canonical(user), now)
  BY CanonicalIs DEF MemberInv, MemberTypeOK
<1>2. user' \in User /\ UsageOf(user') = g /\ user'.status = Canonical(user).status
      /\ user'.expires = Canonical(user).expires
  BY <1>1, WithUsage
<1>3. Room(user', now) = Left(g)
  BY <1>1, <1>2 DEF Room, Expires
<1>4. /\ handler \in [Handlers -> [event : Event, ends : Times] \cup {Nothing}]
      /\ summary \in [Summaries -> [read : User, write : User] \cup {Nothing}]
      /\ \A h \in Handlers : handler[h] # Nothing => handler[h].event \in sent
      /\ \A r \in Summaries : summary[r] # Nothing => SummaryOK(summary[r])
      /\ processed \subseteq sent /\ IsFiniteSet(processed) /\ overwritten \in Nat
  BY DEF MemberInv, MemberTypeOK
<1>5. Granted' = Granted
  BY DEF Granted
<1> QED  BY <1>2, <1>3, <1>4, <1>5, AccountMoves

LEMMA TimeKept ==
    ASSUME MemberInv, (\E n \in Amounts : TakeTime(n)) \/ ChargeTime \/ ReturnTime
    PROVE  MemberInv'
<1> DEFINE c == Canonical(user)
           u == c.usage
<1>1. /\ c \in User /\ u \in Usage /\ holds \in Nat /\ consumed \in Nat
      /\ u.included \in Nat /\ u.used \in Nat /\ u.reserved \in Nat
      /\ Granted \in Nat
  <2>1. user \in User /\ holds \in Nat /\ consumed \in Nat /\ overwritten \in Nat
        /\ IsFiniteSet(processed)
    BY DEF MemberInv, MemberTypeOK
  <2>2. Cardinality(processed) \in Nat
    BY <2>1, FS_CardinalityType
  <2>3. Granted \in Nat
    BY <2>1, <2>2, Grants DEF Granted
  <2>4. c \in User /\ u \in Usage
    BY <2>1, CanonicalIs
  <2> QED  BY <2>1, <2>3, <2>4, GrantIsNat DEF Usage
<1>2. consumed + holds + Left(u) <= Granted
  BY TimeIs DEF GrantedOncePerEvent, Granted
<1>3. ASSUME NEW n \in Amounts, TakeTime(n) PROVE MemberInv'
  <2> DEFINE g == [u EXCEPT !.reserved = u.reserved + n]
  <2>1. n \in Nat /\ holds = 0 /\ Left(u) >= n /\ holds' = n /\ consumed' = consumed
    BY <1>3, GrantIsNat DEF TakeTime
  <2>2. g \in Usage /\ g.included = u.included /\ g.used = u.used /\ g.reserved = u.reserved + n
    BY <1>1, <2>1 DEF Usage
  <2>3. user' = [c EXCEPT !.usage = g]
    BY <1>1, <1>3 DEF TakeTime, User
  <2> HIDE DEF g
  <2>4. Left(g) = Left(u) - n
    BY <1>1, <2>1, <2>2 DEF Left, NotBelowZero
  <2>5. Left(u) \in Nat
    BY <1>1, LeftBounds
  <2> HIDE DEF u, c
  <2>6. consumed' + holds' + Left(g) <= Granted
    BY <1>1, <1>2, <2>1, <2>2, <2>4, <2>5
  <2>7. holds' \in Nat /\ consumed' \in Nat
    BY <1>1, <2>1
  <2>8. UNCHANGED <<now, stripe, sent, handler, processed, summary, overwritten>>
    BY <1>3 DEF TakeTime
  <2> QED  BY <2>2, <2>3, <2>6, <2>7, <2>8, UsageMoves DEF c
<1>4. ASSUME ChargeTime \/ ReturnTime PROVE MemberInv'
  <2> DEFINE charged == IF consumed' = consumed THEN 0 ELSE holds
             res == NotBelowZero(u.reserved - holds)
             g == [u EXCEPT !.reserved = res, !.used = u.used + charged]
  <2>1. holds > 0 /\ holds' = 0 /\ consumed' = consumed + charged /\ charged \in {0, holds}
    BY <1>1, <1>4 DEF ChargeTime, ReturnTime
  <2>2. res \in Nat /\ u.used + charged \in Nat
    BY <1>1, <2>1 DEF NotBelowZero
  <2>3. g \in Usage /\ g.included = u.included /\ g.used = u.used + charged /\ g.reserved = res
    <3> HIDE DEF res, charged
    <3> QED  BY <1>1, <2>2 DEF Usage
  <2>4. user' = [c EXCEPT !.usage = g]
    <3>1. CASE ChargeTime
      <4>1. charged = holds
        BY <1>1, <2>1, <3>1 DEF ChargeTime
      <4>2. [u EXCEPT !.reserved = res, !.used = u.used + holds] = g
        BY <4>1
      <4> HIDE DEF g
      <4> QED  BY <1>1, <3>1, <4>2 DEF ChargeTime, User
    <3>2. CASE ReturnTime
      <4>1. charged = 0
        BY <3>2 DEF ReturnTime
      <4>2. [u EXCEPT !.reserved = res] = g
        <5>1. u.used + charged = u.used
          BY <1>1, <4>1
        <5>2. [u EXCEPT !.reserved = res, !.used = u.used] = [u EXCEPT !.reserved = res]
          <6> HIDE DEF res, u
          <6> QED  BY <1>1 DEF Usage
        <5> QED  BY <5>1, <5>2
      <4> HIDE DEF g
      <4> QED  BY <1>1, <3>2, <4>2 DEF ReturnTime, User
    <3> QED  BY <1>4, <3>1, <3>2
  <2>5. UNCHANGED <<now, stripe, sent, handler, processed, summary, overwritten>>
    BY <1>4 DEF ChargeTime, ReturnTime
  <2> HIDE DEF g, charged
  <2>6. consumed' + holds' + Left(g) <= Granted
    <3>1. res >= u.reserved - holds /\ res \in Nat
      BY <1>1 DEF NotBelowZero
    <3> HIDE DEF res
    <3>2. charged + Left(g) <= holds + Left(u) /\ Left(g) \in Nat /\ Left(u) \in Nat
      <4>1. CASE charged = 0
        BY <1>1, <2>1, <2>3, <3>1, <4>1 DEF Left, NotBelowZero
      <4>2. CASE charged = holds
        BY <1>1, <2>1, <2>3, <3>1, <4>2 DEF Left, NotBelowZero
      <4> QED  BY <2>1, <4>1, <4>2
    <3> HIDE DEF u, c
    <3> QED  BY <1>1, <1>2, <2>1, <2>3, <3>1, <3>2
  <2>7. holds' \in Nat /\ consumed' \in Nat
    BY <1>1, <2>1
  <2> HIDE DEF u, c
  <2> QED  BY <2>3, <2>4, <2>5, <2>6, <2>7, UsageMoves DEF c
<1> QED  BY <1>3, <1>4

(* A summary that finds the account as it was read leaves it no more room; one
   that does not leaves it a grant at most, and is counted. *)
LEMMA WriteSummaryKept ==
    ASSUME MemberInv, NEW r \in Summaries, WriteSummary(r)
    PROVE  MemberInv'
<1> DEFINE u == summary[r].read
           v == summary[r].write
<1>1. /\ u \in User /\ v \in User /\ SummaryOK(summary[r]) /\ user \in User
      /\ summary \in [Summaries -> [read : User, write : User] \cup {Nothing}]
      /\ handler \in [Handlers -> [event : Event, ends : Times] \cup {Nothing}]
      /\ \A h \in Handlers : handler[h] # Nothing => handler[h].event \in sent
      /\ holds \in Nat /\ consumed \in Nat /\ overwritten \in Nat
      /\ processed \subseteq sent /\ IsFiniteSet(processed)
      /\ Cardinality(processed) \in Nat /\ Granted \in Nat
  BY FS_CardinalityType, Grants DEF Granted, WriteSummary, MemberInv, MemberTypeOK
<1>2. /\ user' = v
      /\ \/ user = u /\ overwritten' = overwritten
         \/ overwritten' = overwritten + 1
      /\ summary' = [summary EXCEPT ![r] = Nothing]
      /\ UNCHANGED <<now, stripe, sent, handler, processed, holds, consumed>>
  BY DEF WriteSummary
<1>3. /\ summary' \in [Summaries -> [read : User, write : User] \cup {Nothing}]
      /\ \A s \in Summaries : summary'[s] # Nothing => SummaryOK(summary'[s])
  BY <1>1, <1>2 DEF MemberInv
<1>5. Room(v, now) <= Room(u, now)
  <2>1. CASE v = [u EXCEPT !.usage = UsageOf(u)]
    <3>1. UsageOf(u) \in Usage
      BY <1>1, UsageType
    <3>2. UsageOf(v) = UsageOf(u) /\ v.status = u.status /\ v.expires = u.expires
      BY <1>1, <2>1, <3>1, WithUsage
    <3>3. Room(u, now) \in Nat
      BY <1>1, RoomBounds
    <3>4. Room(v, now) = Room(u, now)
      BY <3>2 DEF Room, Expires
    <3> QED  BY <3>3, <3>4
  <2>2. CASE v.status = "inactive" /\ v.usage.included = 0
    <3>1. UsageOf(v) = v.usage /\ v.usage \in Usage
      BY <1>1, NothingIsNoUsage DEF SummaryOK, UsageOf
    <3>2. Room(v, now) = 0
      BY <2>2, <3>1, LeftBounds DEF Room
    <3> QED  BY <1>1, <3>2, RoomBounds
  <2> QED  BY <1>1, <2>1, <2>2 DEF SummaryOK
<1>6. /\ Room(v, now) \in Nat /\ Room(u, now) \in Nat /\ Room(user, now) \in Nat
      /\ Room(v, now) <= Grant
  BY <1>1, RoomBounds
<1>7. consumed + holds + Room(user, now) <= Granted
  BY DEF MemberInv, TimeExact
<1> HIDE DEF u, v
<1>8. consumed' + holds' + Room(user', now) <= Granted'
  <2>1. CASE user = u /\ overwritten' = overwritten
    <3>1. Granted' = Granted
      BY <1>2, <2>1 DEF Granted
    <3> QED  BY <1>1, <1>2, <1>5, <1>6, <1>7, <2>1, <3>1
  <2>2. CASE overwritten' = overwritten + 1
    <3>1. Granted' = Granted + Grant /\ Grant \in Nat
      BY <1>1, <1>2, <2>2, Grants DEF Granted
    <3> QED  BY <1>1, <1>2, <1>6, <1>7, <3>1
  <2> QED  BY <1>2, <2>1, <2>2
<1>9. overwritten' \in Nat
  BY <1>1, <1>2
<1> QED  BY <1>1, <1>2, <1>3, <1>8, <1>9, AccountMoves

LEMMA NextMember == ASSUME MemberInv, [MemberNext]_memberVars PROVE MemberInv'
<1>1. CASE UNCHANGED memberVars
  BY <1>1 DEF memberVars, MemberInv, MemberTypeOK, TimeExact, Granted, SummaryOK
<1>2. ASSUME NEW h \in Handlers, WebhookStep(h) PROVE MemberInv'
  BY <1>2, RetrieveKept, ApplyKept, HandlerThrowsKept DEF WebhookStep
<1>3. CASE UsageStep
  BY <1>3, TimeKept, ReadSummaryKept, WriteSummaryKept DEF UsageStep
<1> QED  BY <1>1, <1>2, <1>3, StripeKept DEF MemberNext

(* MemberInv holds in every reachable state, whatever the order in which events
   arrive, and however often. *)
THEOREM MemberInvariance == MemberSpec => []MemberInv
<1> QED  BY InitMember, NextMember, PTL DEF MemberSpec

(* What a step does to the difference between what is reserved and what is held *)
Carried ==
    \/ overwritten' > overwritten
    \/ MemberDrift' = MemberDrift
    \/ MemberDrift < MemberDrift' /\ MemberDrift' <= 0

LEMMA DriftKept == ASSUME MemberInv, MemberInv', MemberNext PROVE Carried
<1>0. /\ user \in User /\ user' \in User /\ holds \in Nat /\ holds' \in Nat
      /\ overwritten \in Nat
      /\ MemberDrift = UsageOf(user).reserved - holds
      /\ MemberDrift' = UsageOf(user').reserved - holds'
      /\ UsageOf(user).reserved \in Nat
  <2>1. user \in User /\ user' \in User /\ holds \in Nat /\ holds' \in Nat /\ overwritten \in Nat
    BY DEF MemberInv, MemberTypeOK
  <2> QED  BY <2>1, DriftIs, DriftNext, UsageType DEF Usage
<1>1. ASSUME UsageOf(user').reserved = UsageOf(user).reserved, holds' = holds PROVE Carried
  BY <1>0, <1>1 DEF Carried
<1>2. CASE UNCHANGED <<user, holds>>
  BY <1>1, <1>2
<1>3. ASSUME NEW h \in Handlers, Apply(h) PROVE Carried
  <2>1. handler[h] \in [event : Event, ends : Times] /\ UNCHANGED holds
    BY <1>3 DEF Apply, MemberInv, MemberTypeOK
  <2>2. user' = user \/ UsageOf(user').reserved = UsageOf(user).reserved
    BY <1>3, <2>1, PatchIs DEF Apply, Event
  <2> QED  BY <1>1, <1>2, <2>1, <2>2
<1>4. CASE (\E n \in Amounts : TakeTime(n)) \/ ChargeTime \/ ReturnTime
  <2> DEFINE c == Canonical(user)
  <2>1. /\ c \in User /\ c.usage \in Usage /\ c.usage.reserved = UsageOf(user).reserved
    BY <1>0, CanonicalIs
  <2>2. user'.usage # Nothing => UsageOf(user') = user'.usage
    BY <1>0, UsageType
  <2>3. ASSUME NEW n \in Amounts, TakeTime(n)
        PROVE  UsageOf(user').reserved = UsageOf(user).reserved + n /\ holds' = n /\ holds = 0
               /\ n \in Nat
    <3> DEFINE g == [c.usage EXCEPT !.reserved = @ + n]
    <3>1. n \in Nat /\ user' = [c EXCEPT !.usage = g]
      BY <2>1, <2>3, GrantIsNat DEF TakeTime, User
    <3>2. g \in Usage /\ g.reserved = c.usage.reserved + n
      BY <2>1, <3>1 DEF Usage
    <3> HIDE DEF c, g
    <3>3. user'.usage = g
      BY <2>1, <3>1 DEF User
    <3> QED  BY <2>1, <2>2, <2>3, <3>1, <3>2, <3>3, NothingIsNoUsage DEF TakeTime
  <2>4. ASSUME ChargeTime \/ ReturnTime
        PROVE  UsageOf(user').reserved = NotBelowZero(UsageOf(user).reserved - holds) /\ holds' = 0
    <3>1. CASE ChargeTime
      <4> DEFINE g == [c.usage EXCEPT !.reserved = NotBelowZero(@ - holds), !.used = @ + holds]
      <4>1. user' = [c EXCEPT !.usage = g] /\ holds' = 0
        BY <2>1, <3>1 DEF ChargeTime, User
      <4>2. g \in Usage /\ g.reserved = NotBelowZero(c.usage.reserved - holds)
        <5> DEFINE res == NotBelowZero(c.usage.reserved - holds)
                   charged == c.usage.used + holds
        <5>1. res \in Nat /\ charged \in Nat
          BY <1>0, <2>1 DEF Usage, NotBelowZero
        <5>2. g = [c.usage EXCEPT !.reserved = res, !.used = charged]
          OBVIOUS
        <5> HIDE DEF c, g, res, charged
        <5>3. g \in Usage /\ g.reserved = res
          BY <2>1, <5>1, <5>2 DEF Usage
        <5> QED  BY <5>3 DEF res
      <4> HIDE DEF c, g
      <4>3. user'.usage = g
        BY <2>1, <4>1 DEF User
      <4> QED  BY <2>1, <2>2, <4>1, <4>2, <4>3, NothingIsNoUsage
    <3>2. CASE ReturnTime
      <4> DEFINE g == [c.usage EXCEPT !.reserved = NotBelowZero(@ - holds)]
      <4>1. user' = [c EXCEPT !.usage = g] /\ holds' = 0
        BY <2>1, <3>2 DEF ReturnTime, User
      <4>2. g \in Usage /\ g.reserved = NotBelowZero(c.usage.reserved - holds)
        BY <1>0, <2>1 DEF Usage, NotBelowZero
      <4> HIDE DEF c, g
      <4>3. user'.usage = g
        BY <2>1, <4>1 DEF User
      <4> QED  BY <2>1, <2>2, <4>1, <4>2, <4>3, NothingIsNoUsage
    <3> QED  BY <2>4, <3>1, <3>2
  <2> HIDE DEF c
  <2>5. CASE \E n \in Amounts : TakeTime(n)
    BY <1>0, <2>3, <2>5 DEF Carried
  <2>6. CASE ChargeTime \/ ReturnTime
    <3>1. CASE UsageOf(user).reserved >= holds
      BY <1>0, <2>4, <2>6, <3>1 DEF Carried, NotBelowZero
    <3>2. CASE UsageOf(user).reserved < holds
      BY <1>0, <2>4, <2>6, <3>2 DEF Carried, NotBelowZero
    <3> QED  BY <1>0, <3>1, <3>2
  <2> QED  BY <1>4, <2>5, <2>6
<1>5. ASSUME NEW r \in Summaries, WriteSummary(r) PROVE Carried
  <2>1. /\ summary[r].read \in User /\ SummaryOK(summary[r])
        /\ user' = summary[r].write /\ UNCHANGED holds
    BY <1>5 DEF WriteSummary, MemberInv, MemberTypeOK
  <2>2. CASE user = summary[r].read
    <3>1. UsageOf(user').reserved = UsageOf(user).reserved
      BY <2>1, <2>2, NothingIsNoUsage DEF SummaryOK, UsageOf
    <3> QED  BY <1>1, <2>1, <3>1
  <2>3. CASE user # summary[r].read
    BY <1>0, <1>5, <2>3 DEF WriteSummary, Carried
  <2> QED  BY <2>2, <2>3
<1> QED
  BY <1>2, <1>3, <1>4, <1>5
  DEF MemberNext, StripeStep, Pay, Renew, Delete, PeriodPasses, WebhookStep, Retrieve,
      HandlerThrows, UsageStep, ReadSummary

(* All the time that an account is ever charged, has reserved or may still take
   is paid for, once per event: an event that is processed grants the time of
   one period at most (applyWebhookTransaction), as does a usage summary that is
   written over a change it has not read (ensureCanonicalUsageState).  What is
   reserved moves with what attempts hold, over renewals, checkouts and
   deletions (buildActiveMembershipPatch), but for such a write. *)
THEOREM PeriodsStayExact == MemberSpec => PeriodsExact
<1>1. MemberInv => GrantedOncePerEvent
  BY TimeIs
<1>2. MemberInv /\ MemberInv' /\ [MemberNext]_memberVars => [Carried]_memberVars
  BY DriftKept
<1>3. MemberInv' => GrantedOncePerEvent'
  BY <1>1, PTL
<1>4. MemberInv /\ MemberInv' /\ [MemberNext]_memberVars
          => [GrantedOncePerEvent' /\ ReservationCarried]_memberVars
  BY <1>2, <1>3 DEF Carried, ReservationCarried
<1> QED  BY <1>4, MemberInvariance, PTL DEF MemberSpec, PeriodsExact

-----------------------------------------------------------------------------
(* What is spoken of a story *)

(* What the narration of a beat says is what is stored. *)
DescribedBy(v, doubted, snd, tms) ==
    /\ v.print \in DOMAIN snd /\ v.print \in DOMAIN tms
    /\ v.print \notin doubted => snd[v.print] = tms[v.print] /\ snd[v.print].length = v.length

AllDescribed(s, doubted, snd, tms) ==
    \A b \in DOMAIN s.voices : DescribedBy(s.voices[b], doubted, snd, tms)

HasFields(s) ==
    s = [lines |-> s.lines, captions |-> s.captions, voices |-> s.voices,
         state |-> s.state, stale |-> s.stale, print |-> s.print, doubted |-> s.doubted]

IsSession(s) ==
    /\ HasFields(s)
    /\ s.lines \in [Beats -> Sentences]
    /\ DOMAIN s.voices \subseteq Beats
    /\ s.stale \subseteq Beats

(* The print of a story names its narrations, and a current story has its own. *)
PrintHolds(s) ==
    /\ s.print # Unset =>
           DOMAIN s.voices = Beats /\ \A b \in Beats : s.voices[b].print = s.print[b]
    /\ s.state = "current" => s.print = s.lines

Sound(s, snd, tms) == IsSession(s) /\ PrintHolds(s) /\ AllDescribed(s, s.doubted, snd, tms)

(* A beat that is spoken, under a print that no other such beat has *)
Alone(y, c) ==
    \A d \in Beats \ y.todo : y.copy.lines[d] = y.copy.lines[c] => d = c

Busy == {"asking", "sound", "times"}

(* A sync that is under way: its copy is described but for what it has stored,
   and what it has stored for one beat alone, it has as it is stored. *)
Spoke(y, snd, tms) ==
    /\ IsSession(y.copy)
    /\ y.todo \subseteq Beats
    /\ AllDescribed(y.copy, y.copy.doubted \cup y.stored, snd, tms)
    /\ \A c \in Beats \ y.todo :
           c \in DOMAIN y.copy.voices /\ y.copy.voices[c].print = y.copy.lines[c]
    /\ \A c \in Beats \ y.todo :
           LET p == y.copy.lines[c]
           IN  p \in y.stored /\ Alone(y, c)
               /\ ~(y.at = "times" /\ p = y.copy.lines[Least(y.todo)]) =>
                   snd[p] = tms[p] /\ snd[p].length = y.copy.voices[c].length

Taken(y, snd) ==
    LET p == y.copy.lines[Least(y.todo)]
    IN  /\ y.todo # {} /\ y.take.line = p
        /\ y.at = "times" => p \in y.stored /\ p \in DOMAIN snd /\ snd[p] = y.take

IsSync(y) ==
    y = [at |-> y.at, todo |-> y.todo, copy |-> y.copy, take |-> y.take, stored |-> y.stored]

SyncHolds(y, snd, tms) ==
    /\ IsSync(y)
    /\ y.at \in {"idle", "cached", "dead"} \cup Busy
    /\ y.at = "cached" => Sound(y.copy, snd, tms) /\ y.copy.print = y.copy.lines
    /\ y.at \in Busy => Spoke(y, snd, tms)
    /\ y.at \in {"sound", "times"} => Taken(y, snd)

HeardRight(s, b, h) ==
    /\ h.sound.line = s.lines[b]
    /\ s.voices[b].print \notin s.doubted =>
           /\ h.sound.length = s.voices[b].length
           /\ "timing" \in DOMAIN h => h.timing = h.sound

IsReel(r) == r = [at |-> r.at, todo |-> r.todo, copy |-> r.copy, heard |-> r.heard]

(* What a film has heard and lit is of its own copy, and what it lights now is
   stored as it was heard. *)
ReelHolds(r, snd, tms) ==
    /\ IsReel(r)
    /\ r.at = "idle" => DOMAIN r.heard = {}
    /\ r.at # "idle" =>
           /\ Sound(r.copy, snd, tms) /\ r.copy.state = "current"
           /\ r.todo \subseteq Beats /\ DOMAIN r.heard \subseteq Beats
           /\ \A b \in DOMAIN r.heard : HeardRight(r.copy, b, r.heard[b])
    /\ r.at = "drawing" =>
           LET b == Least(r.todo)
               p == r.copy.voices[b].print
           IN  /\ r.todo # {} /\ b \in DOMAIN r.heard
               /\ DOMAIN r.heard[b] = {"sound"}
               /\ p \notin r.copy.doubted => r.heard[b].sound = snd[p]

(* Whoever could save a narration under the print that is being stored doubts it. *)
StoringDoubted ==
    sync.at = "times" =>
        /\ Line \in script.doubted
        /\ revision # Unset => Line \in revision.doubted
        /\ reel.at # "idle" => Line \in reel.copy.doubted

NarrationInv ==
    /\ Sound(script, sound, times)
    /\ revision # Unset => Sound(revision, sound, times)
    /\ SyncHolds(sync, sound, times)
    /\ ReelHolds(reel, sound, times)
    /\ \A p \in DOMAIN sound : sound[p].line = p
    /\ StoringDoubted

-----------------------------------------------------------------------------
LEMMA LeastIsOne ==
    ASSUME NEW T, T \subseteq Beats, T # {}
    PROVE  Least(T) \in T
<1>1. T \subseteq Nat
  BY BeatCountIsPositive DEF Beats
<1>2. PICK n \in T : \A m \in T : n <= m
  BY <1>1, LeastOf
<1> QED  BY <1>2 DEF Least

LEMMA PutIs ==
    ASSUME NEW f, NEW k, NEW v
    PROVE  /\ DOMAIN Put(f, k, v) = DOMAIN f \cup {k}
           /\ Put(f, k, v)[k] = v
           /\ \A x \in DOMAIN f \ {k} : Put(f, k, v)[x] = f[x]
BY DEF Put

(* An edit that leaves narrations and prints alone *)
LEMMA SoundEdit ==
    ASSUME NEW s, NEW t, NEW snd, NEW tms, Sound(s, snd, tms), IsSession(t), PrintHolds(t),
           t.voices = s.voices, t.doubted = s.doubted
    PROVE  Sound(t, snd, tms)
BY DEF Sound, AllDescribed

(* What is stored under a doubted print changes nothing that is claimed. *)
LEMMA DescribedKept ==
    ASSUME NEW v, NEW doubted, NEW more, NEW snd, NEW tms, NEW p, NEW take,
           DescribedBy(v, doubted, snd, tms), doubted \subseteq more, p \in more
    PROVE  /\ DescribedBy(v, more, Put(snd, p, take), tms)
           /\ DescribedBy(v, more, snd, Put(tms, p, take))
<1>1. /\ v.print \in DOMAIN snd /\ v.print \in DOMAIN tms
      /\ v.print \notin more => /\ snd[v.print] = tms[v.print]
                                /\ snd[v.print].length = v.length
                                /\ v.print # p
  BY DEF DescribedBy
<1>2. v.print # p => /\ Put(snd, p, take)[v.print] = snd[v.print]
                     /\ Put(tms, p, take)[v.print] = tms[v.print]
  BY <1>1 DEF Put
<1>3. v.print \in DOMAIN Put(snd, p, take) /\ v.print \in DOMAIN Put(tms, p, take)
  BY <1>1 DEF Put
<1>4. DescribedBy(v, more, Put(snd, p, take), tms)
  BY <1>1, <1>2, <1>3 DEF DescribedBy
<1>5. DescribedBy(v, more, snd, Put(tms, p, take))
  BY <1>1, <1>2, <1>3 DEF DescribedBy
<1> QED  BY <1>4, <1>5

LEMMA AllDescribedKept ==
    ASSUME NEW s, NEW doubted, NEW more, NEW snd, NEW tms, NEW p, NEW take,
           AllDescribed(s, doubted, snd, tms), doubted \subseteq more, p \in more
    PROVE  /\ AllDescribed(s, more, Put(snd, p, take), tms)
           /\ AllDescribed(s, more, snd, Put(tms, p, take))
<1> SUFFICES ASSUME NEW b \in DOMAIN s.voices
             PROVE  /\ DescribedBy(s.voices[b], more, Put(snd, p, take), tms)
                    /\ DescribedBy(s.voices[b], more, snd, Put(tms, p, take))
  BY DEF AllDescribed
<1>1. DescribedBy(s.voices[b], doubted, snd, tms)
  BY DEF AllDescribed
<1> QED  BY <1>1, DescribedKept

(* One field of a session *)
LEMMA SetLines ==
    ASSUME NEW s, HasFields(s), NEW v
    PROVE  LET t == [s EXCEPT !.lines = v]
           IN  /\ HasFields(t)
               /\ t.lines = v /\ t.captions = s.captions /\ t.voices = s.voices /\ t.state = s.state
               /\ t.stale = s.stale /\ t.print = s.print /\ t.doubted = s.doubted
<1> DEFINE t == [s EXCEPT !.lines = v]
<1>1. t = [lines |-> v, captions |-> s.captions, voices |-> s.voices, state |-> s.state,
           stale |-> s.stale, print |-> s.print, doubted |-> s.doubted]
  BY DEF HasFields
<1> HIDE DEF t
<1> QED  BY <1>1 DEF t, HasFields

LEMMA SetCaptions ==
    ASSUME NEW s, HasFields(s), NEW v
    PROVE  LET t == [s EXCEPT !.captions = v]
           IN  /\ HasFields(t)
               /\ t.lines = s.lines /\ t.captions = v /\ t.voices = s.voices /\ t.state = s.state
               /\ t.stale = s.stale /\ t.print = s.print /\ t.doubted = s.doubted
<1> DEFINE t == [s EXCEPT !.captions = v]
<1>1. t = [lines |-> s.lines, captions |-> v, voices |-> s.voices, state |-> s.state,
           stale |-> s.stale, print |-> s.print, doubted |-> s.doubted]
  BY DEF HasFields
<1> HIDE DEF t
<1> QED  BY <1>1 DEF t, HasFields

LEMMA SetVoices ==
    ASSUME NEW s, HasFields(s), NEW v
    PROVE  LET t == [s EXCEPT !.voices = v]
           IN  /\ HasFields(t)
               /\ t.lines = s.lines /\ t.captions = s.captions /\ t.voices = v /\ t.state = s.state
               /\ t.stale = s.stale /\ t.print = s.print /\ t.doubted = s.doubted
<1> DEFINE t == [s EXCEPT !.voices = v]
<1>1. t = [lines |-> s.lines, captions |-> s.captions, voices |-> v, state |-> s.state,
           stale |-> s.stale, print |-> s.print, doubted |-> s.doubted]
  BY DEF HasFields
<1> HIDE DEF t
<1> QED  BY <1>1 DEF t, HasFields

LEMMA SetState ==
    ASSUME NEW s, HasFields(s), NEW v
    PROVE  LET t == [s EXCEPT !.state = v]
           IN  /\ HasFields(t)
               /\ t.lines = s.lines /\ t.captions = s.captions /\ t.voices = s.voices /\ t.state = v
               /\ t.stale = s.stale /\ t.print = s.print /\ t.doubted = s.doubted
<1> DEFINE t == [s EXCEPT !.state = v]
<1>1. t = [lines |-> s.lines, captions |-> s.captions, voices |-> s.voices, state |-> v,
           stale |-> s.stale, print |-> s.print, doubted |-> s.doubted]
  BY DEF HasFields
<1> HIDE DEF t
<1> QED  BY <1>1 DEF t, HasFields

LEMMA SetStale ==
    ASSUME NEW s, HasFields(s), NEW v
    PROVE  LET t == [s EXCEPT !.stale = v]
           IN  /\ HasFields(t)
               /\ t.lines = s.lines /\ t.captions = s.captions /\ t.voices = s.voices /\ t.state = s.state
               /\ t.stale = v /\ t.print = s.print /\ t.doubted = s.doubted
<1> DEFINE t == [s EXCEPT !.stale = v]
<1>1. t = [lines |-> s.lines, captions |-> s.captions, voices |-> s.voices, state |-> s.state,
           stale |-> v, print |-> s.print, doubted |-> s.doubted]
  BY DEF HasFields
<1> HIDE DEF t
<1> QED  BY <1>1 DEF t, HasFields

LEMMA SetPrint ==
    ASSUME NEW s, HasFields(s), NEW v
    PROVE  LET t == [s EXCEPT !.print = v]
           IN  /\ HasFields(t)
               /\ t.lines = s.lines /\ t.captions = s.captions /\ t.voices = s.voices /\ t.state = s.state
               /\ t.stale = s.stale /\ t.print = v /\ t.doubted = s.doubted
<1> DEFINE t == [s EXCEPT !.print = v]
<1>1. t = [lines |-> s.lines, captions |-> s.captions, voices |-> s.voices, state |-> s.state,
           stale |-> s.stale, print |-> v, doubted |-> s.doubted]
  BY DEF HasFields
<1> HIDE DEF t
<1> QED  BY <1>1 DEF t, HasFields

LEMMA SetDoubted ==
    ASSUME NEW s, HasFields(s), NEW v
    PROVE  LET t == [s EXCEPT !.doubted = v]
           IN  /\ HasFields(t)
               /\ t.lines = s.lines /\ t.captions = s.captions /\ t.voices = s.voices /\ t.state = s.state
               /\ t.stale = s.stale /\ t.print = s.print /\ t.doubted = v
<1> DEFINE t == [s EXCEPT !.doubted = v]
<1>1. t = [lines |-> s.lines, captions |-> s.captions, voices |-> s.voices, state |-> s.state,
           stale |-> s.stale, print |-> s.print, doubted |-> v]
  BY DEF HasFields
<1> HIDE DEF t
<1> QED  BY <1>1 DEF t, HasFields

(* A copy of the session that comes to doubt a print, whose sound is stored *)
LEMMA SoundDoubting ==
    ASSUME NEW s, NEW snd, NEW tms, NEW p, NEW take, Sound(s, snd, tms)
    PROVE  LET t == [s EXCEPT !.doubted = @ \cup {p}]
           IN  /\ Sound(t, Put(snd, p, take), tms)
               /\ t.lines = s.lines /\ t.voices = s.voices /\ t.state = s.state
               /\ t.doubted = s.doubted \cup {p}
<1> DEFINE t == [s EXCEPT !.doubted = s.doubted \cup {p}]
<1>1. IsSession(s) /\ PrintHolds(s) /\ AllDescribed(s, s.doubted, snd, tms)
  BY DEF Sound
<1>2. /\ HasFields(t)
      /\ t.lines = s.lines /\ t.captions = s.captions /\ t.voices = s.voices
      /\ t.state = s.state /\ t.stale = s.stale /\ t.print = s.print
      /\ t.doubted = s.doubted \cup {p}
  BY <1>1, SetDoubted DEF IsSession
<1> HIDE DEF t
<1>3. IsSession(t) /\ PrintHolds(t)
  BY <1>1, <1>2 DEF IsSession, PrintHolds
<1>4. AllDescribed(s, t.doubted, Put(snd, p, take), tms)
  BY <1>1, <1>2, AllDescribedKept
<1>5. AllDescribed(t, t.doubted, Put(snd, p, take), tms)
  BY <1>2, <1>4 DEF AllDescribed
<1>6. Sound(t, Put(snd, p, take), tms)
  BY <1>3, <1>5 DEF Sound
<1> QED  BY <1>2, <1>6 DEF t

LEMMA SoundAfter ==
    ASSUME NEW s, NEW snd, NEW tms, NEW p, NEW take, Sound(s, snd, tms),
           NEW t, t = [s EXCEPT !.doubted = @ \cup {p}]
    PROVE  /\ Sound(t, Put(snd, p, take), tms)
           /\ p \in t.doubted
<1>1. LET u == [s EXCEPT !.doubted = @ \cup {p}]
      IN  Sound(u, Put(snd, p, take), tms) /\ u.doubted = s.doubted \cup {p}
  BY SoundDoubting
<1> QED  BY <1>1

(* A copy that doubts a print already, whose times are stored *)
LEMMA SoundThrough ==
    ASSUME NEW s, NEW snd, NEW tms, NEW p, NEW take, Sound(s, snd, tms), p \in s.doubted
    PROVE  Sound(s, snd, Put(tms, p, take))
BY AllDescribedKept DEF Sound

-----------------------------------------------------------------------------
(* What a step leaves alone *)
LEMMA FreshIs ==
    ASSUME NEW lines \in [Beats -> Sentences], NEW d
    PROVE  /\ DOMAIN NoVoices = {}
           /\ LET s == [Fresh(lines) EXCEPT !.doubted = d]
              IN  /\ s.doubted = d
                  /\ \A snd, tms : Sound(s, snd, tms)
<1> DEFINE s == [Fresh(lines) EXCEPT !.doubted = d]
<1>1. DOMAIN NoVoices = {}
  BY DEF NoVoices
<1>2. s = [lines |-> lines, captions |-> Unset, voices |-> NoVoices,
           state |-> "never_synced", stale |-> {}, print |-> Unset, doubted |-> d]
  BY DEF Fresh
<1> HIDE DEF s
<1>3. /\ s.lines = lines /\ s.captions = Unset /\ s.voices = NoVoices
      /\ s.state = "never_synced" /\ s.stale = {} /\ s.print = Unset /\ s.doubted = d
  BY <1>2
<1>4. IsSession(s) /\ PrintHolds(s)
  <2>1. HasFields(s)
    BY <1>2, <1>3 DEF HasFields
  <2> QED  BY <1>1, <1>3, <2>1 DEF IsSession, PrintHolds
<1>5. \A snd, tms : Sound(s, snd, tms)
  BY <1>1, <1>3, <1>4 DEF Sound, AllDescribed
<1> QED  BY <1>1, <1>3, <1>5 DEF s

LEMMA NarrationStarts == ASSUME NarrationInit PROVE NarrationInv
<1>1. PICK lines \in [Beats -> Sentences] : script = Fresh(lines)
  BY DEF NarrationInit
<1>2. script = [Fresh(lines) EXCEPT !.doubted = {}]
  BY <1>1 DEF Fresh
<1>3. Sound(script, sound, times) /\ DOMAIN NoVoices = {}
  BY <1>2, FreshIs
<1>4. SyncHolds(sync, sound, times)
  BY DEF NarrationInit, NoSync, IsSync, SyncHolds, Busy
<1>5. ReelHolds(reel, sound, times)
  BY <1>3 DEF NarrationInit, NoReel, IsReel, ReelHolds
<1> QED
  BY <1>3, <1>4, <1>5 DEF NarrationInit, NarrationInv, StoringDoubted, NoSync

LEMMA SaveStep ==
    ASSUME NarrationInv, UNCHANGED <<sound, times, sync, reel>>,
           Sound(script', sound, times),
           revision' # Unset => Sound(revision', sound, times),
           sync.at = "times" => /\ Line \in script'.doubted
                                /\ revision' # Unset => Line \in revision'.doubted
    PROVE  NarrationInv'
BY DEF NarrationInv, StoringDoubted, Line, Turn

LEMMA EditStep ==
    ASSUME NarrationInv, NEW t, Edits(t), Sound(t, sound, times), t.doubted = revision.doubted
    PROVE  NarrationInv'
BY SaveStep DEF Edits, NarrationInv, StoringDoubted

LEMMA EditsKeep == ASSUME NarrationInv, EditActs PROVE NarrationInv'
<1>1. CASE OpenScript
  BY <1>1, SaveStep DEF OpenScript, NarrationInv, StoringDoubted
<1>2. ASSUME NEW b \in Beats, NEW line \in Sentences, Rewrite(b, line) PROVE NarrationInv'
  <2> DEFINE l == [revision.lines EXCEPT ![b] = line]
             t1 == [revision EXCEPT !.lines = l]
             t2 == [t1 EXCEPT !.state = "stale"]
             t3 == [t2 EXCEPT !.stale = revision.stale \cup {b}]
  <2>1. Sound(revision, sound, times)
    BY <1>2 DEF Rewrite, Edits, NarrationInv
  <2>2. l \in [Beats -> Sentences] /\ IsSession(revision) /\ PrintHolds(revision)
    BY <2>1 DEF Sound, IsSession
  <2>3. /\ [revision EXCEPT !.lines[b] = line] = t1
        /\ [revision EXCEPT !.lines[b] = line, !.state = "stale", !.stale = @ \cup {b}] = t3
    OBVIOUS
  <2>4. Edits(IF revision.state = "never_synced" THEN t1 ELSE t3)
    BY <1>2, <2>3 DEF Rewrite
  <2> HIDE DEF l
  <2>5. /\ HasFields(t1) /\ t1.lines = l /\ t1.voices = revision.voices
        /\ t1.state = revision.state /\ t1.stale = revision.stale
        /\ t1.print = revision.print /\ t1.doubted = revision.doubted
    BY <2>2, SetLines DEF IsSession
  <2> HIDE DEF t1
  <2>6. /\ HasFields(t2) /\ t2.lines = l /\ t2.voices = revision.voices
        /\ t2.state = "stale" /\ t2.print = revision.print /\ t2.doubted = revision.doubted
    BY <2>5, SetState
  <2> HIDE DEF t2
  <2>7. /\ HasFields(t3) /\ t3.lines = l /\ t3.voices = revision.voices
        /\ t3.state = "stale" /\ t3.stale = revision.stale \cup {b}
        /\ t3.print = revision.print /\ t3.doubted = revision.doubted
    BY <2>6, SetStale
  <2> HIDE DEF t3
  <2>8. Sound(t3, sound, times)
    <3>1. IsSession(t3) /\ PrintHolds(t3)
      BY <2>2, <2>7 DEF IsSession, PrintHolds
    <3> QED  BY <2>1, <2>7, <3>1, SoundEdit
  <2>9. CASE revision.state = "never_synced"
    <3>1. IsSession(t1) /\ PrintHolds(t1)
      BY <2>2, <2>5, <2>9 DEF IsSession, PrintHolds
    <3>2. Sound(t1, sound, times)
      BY <2>1, <2>5, <3>1, SoundEdit
    <3> QED  BY <2>4, <2>5, <2>9, <3>2, EditStep
  <2>10. CASE revision.state # "never_synced"
    BY <2>4, <2>7, <2>8, <2>10, EditStep
  <2> QED  BY <2>9, <2>10
<1>3. ASSUME NEW lines \in [Beats -> Sentences], Regenerate(lines) PROVE NarrationInv'
  <2> DEFINE t1 == [revision EXCEPT !.lines = lines]
             t2 == [t1 EXCEPT !.state = "never_synced"]
             t3 == [t2 EXCEPT !.stale = {}]
             t4 == [t3 EXCEPT !.print = Unset]
  <2>1. Sound(revision, sound, times) /\ IsSession(revision)
    BY <1>3 DEF Regenerate, Edits, NarrationInv, Sound
  <2>2. Edits(t4)
    BY <1>3 DEF Regenerate
  <2>3. /\ HasFields(t1) /\ t1.lines = lines /\ t1.voices = revision.voices
        /\ t1.doubted = revision.doubted
    BY <2>1, SetLines DEF IsSession
  <2> HIDE DEF t1
  <2>4. /\ HasFields(t2) /\ t2.lines = lines /\ t2.voices = revision.voices
        /\ t2.state = "never_synced" /\ t2.doubted = revision.doubted
    BY <2>3, SetState, SMTT(30)
  <2> HIDE DEF t2
  <2>5. /\ HasFields(t3) /\ t3.lines = lines /\ t3.voices = revision.voices
        /\ t3.state = "never_synced" /\ t3.stale = {} /\ t3.doubted = revision.doubted
    BY <2>4, SetStale
  <2> HIDE DEF t3
  <2>6. /\ HasFields(t4) /\ t4.lines = lines /\ t4.voices = revision.voices
        /\ t4.state = "never_synced" /\ t4.stale = {} /\ t4.print = Unset /\ t4.doubted = revision.doubted
    BY <2>5, SetPrint
  <2> HIDE DEF t4
  <2>7. IsSession(t4) /\ PrintHolds(t4)
    BY <2>1, <2>6 DEF IsSession, PrintHolds
  <2>8. Sound(t4, sound, times)
    BY <2>1, <2>6, <2>7, SoundEdit
  <2> QED  BY <2>2, <2>6, <2>8, EditStep
<1>4. ASSUME NEW lines \in [Beats -> Sentences], NewScript(lines) PROVE NarrationInv'
  BY <1>4, FreshIs, EditStep DEF NewScript
<1>5. CASE TimeCaptions
  <2> DEFINE t == [revision EXCEPT !.captions = revision.lines]
  <2>1. Sound(revision, sound, times) /\ IsSession(revision) /\ PrintHolds(revision)
    BY <1>5 DEF TimeCaptions, Edits, NarrationInv, Sound
  <2>2. Edits(t)
    BY <1>5 DEF TimeCaptions
  <2>3. /\ HasFields(t) /\ t.lines = revision.lines /\ t.voices = revision.voices
        /\ t.state = revision.state /\ t.stale = revision.stale /\ t.print = revision.print
        /\ t.doubted = revision.doubted
    BY <2>1, SetCaptions DEF IsSession
  <2> HIDE DEF t
  <2>4. IsSession(t) /\ PrintHolds(t)
    BY <2>1, <2>3 DEF IsSession, PrintHolds
  <2>5. Sound(t, sound, times)
    BY <2>1, <2>3, <2>4, SoundEdit
  <2> QED  BY <2>2, <2>3, <2>5, EditStep
<1> QED  BY <1>1, <1>2, <1>3, <1>4, <1>5 DEF EditActs

-----------------------------------------------------------------------------
(* One field of a sync or a film *)
LEMMA SyncAt ==
    ASSUME NEW y, IsSync(y), NEW v
    PROVE  LET t == [y EXCEPT !.at = v]
           IN  /\ IsSync(t)
               /\ t.at = v /\ t.todo = y.todo /\ t.copy = y.copy /\ t.take = y.take /\ t.stored = y.stored
<1> DEFINE t == [y EXCEPT !.at = v]
<1>1. t = [at |-> v, todo |-> y.todo, copy |-> y.copy, take |-> y.take, stored |-> y.stored]
  BY DEF IsSync
<1> HIDE DEF t
<1> QED  BY <1>1 DEF t, IsSync

LEMMA SyncTodo ==
    ASSUME NEW y, IsSync(y), NEW v
    PROVE  LET t == [y EXCEPT !.todo = v]
           IN  /\ IsSync(t)
               /\ t.at = y.at /\ t.todo = v /\ t.copy = y.copy /\ t.take = y.take /\ t.stored = y.stored
<1> DEFINE t == [y EXCEPT !.todo = v]
<1>1. t = [at |-> y.at, todo |-> v, copy |-> y.copy, take |-> y.take, stored |-> y.stored]
  BY DEF IsSync
<1> HIDE DEF t
<1> QED  BY <1>1 DEF t, IsSync

LEMMA SyncCopy ==
    ASSUME NEW y, IsSync(y), NEW v
    PROVE  LET t == [y EXCEPT !.copy = v]
           IN  /\ IsSync(t)
               /\ t.at = y.at /\ t.todo = y.todo /\ t.copy = v /\ t.take = y.take /\ t.stored = y.stored
<1> DEFINE t == [y EXCEPT !.copy = v]
<1>1. t = [at |-> y.at, todo |-> y.todo, copy |-> v, take |-> y.take, stored |-> y.stored]
  BY DEF IsSync
<1> HIDE DEF t
<1> QED  BY <1>1 DEF t, IsSync

LEMMA SyncTake ==
    ASSUME NEW y, IsSync(y), NEW v
    PROVE  LET t == [y EXCEPT !.take = v]
           IN  /\ IsSync(t)
               /\ t.at = y.at /\ t.todo = y.todo /\ t.copy = y.copy /\ t.take = v /\ t.stored = y.stored
<1> DEFINE t == [y EXCEPT !.take = v]
<1>1. t = [at |-> y.at, todo |-> y.todo, copy |-> y.copy, take |-> v, stored |-> y.stored]
  BY DEF IsSync
<1> HIDE DEF t
<1> QED  BY <1>1 DEF t, IsSync

LEMMA SyncStored ==
    ASSUME NEW y, IsSync(y), NEW v
    PROVE  LET t == [y EXCEPT !.stored = v]
           IN  /\ IsSync(t)
               /\ t.at = y.at /\ t.todo = y.todo /\ t.copy = y.copy /\ t.take = y.take /\ t.stored = v
<1> DEFINE t == [y EXCEPT !.stored = v]
<1>1. t = [at |-> y.at, todo |-> y.todo, copy |-> y.copy, take |-> y.take, stored |-> v]
  BY DEF IsSync
<1> HIDE DEF t
<1> QED  BY <1>1 DEF t, IsSync

LEMMA ReelAt ==
    ASSUME NEW r, IsReel(r), NEW v
    PROVE  LET t == [r EXCEPT !.at = v]
           IN  /\ IsReel(t)
               /\ t.at = v /\ t.todo = r.todo /\ t.copy = r.copy /\ t.heard = r.heard
<1> DEFINE t == [r EXCEPT !.at = v]
<1>1. t = [at |-> v, todo |-> r.todo, copy |-> r.copy, heard |-> r.heard]
  BY DEF IsReel
<1> HIDE DEF t
<1> QED  BY <1>1 DEF t, IsReel

LEMMA ReelTodo ==
    ASSUME NEW r, IsReel(r), NEW v
    PROVE  LET t == [r EXCEPT !.todo = v]
           IN  /\ IsReel(t)
               /\ t.at = r.at /\ t.todo = v /\ t.copy = r.copy /\ t.heard = r.heard
<1> DEFINE t == [r EXCEPT !.todo = v]
<1>1. t = [at |-> r.at, todo |-> v, copy |-> r.copy, heard |-> r.heard]
  BY DEF IsReel
<1> HIDE DEF t
<1> QED  BY <1>1 DEF t, IsReel

LEMMA ReelCopy ==
    ASSUME NEW r, IsReel(r), NEW v
    PROVE  LET t == [r EXCEPT !.copy = v]
           IN  /\ IsReel(t)
               /\ t.at = r.at /\ t.todo = r.todo /\ t.copy = v /\ t.heard = r.heard
<1> DEFINE t == [r EXCEPT !.copy = v]
<1>1. t = [at |-> r.at, todo |-> r.todo, copy |-> v, heard |-> r.heard]
  BY DEF IsReel
<1> HIDE DEF t
<1> QED  BY <1>1 DEF t, IsReel

LEMMA ReelHeard ==
    ASSUME NEW r, IsReel(r), NEW v
    PROVE  LET t == [r EXCEPT !.heard = v]
           IN  /\ IsReel(t)
               /\ t.at = r.at /\ t.todo = r.todo /\ t.copy = r.copy /\ t.heard = v
<1> DEFINE t == [r EXCEPT !.heard = v]
<1>1. t = [at |-> r.at, todo |-> r.todo, copy |-> r.copy, heard |-> v]
  BY DEF IsReel
<1> HIDE DEF t
<1> QED  BY <1>1 DEF t, IsReel

LEMMA NoSyncHolds ==
    ASSUME NEW snd, NEW tms
    PROVE  /\ SyncHolds(NoSync, snd, tms)
           /\ SyncHolds([NoSync EXCEPT !.at = "dead"], snd, tms)
           /\ NoSync.at = "idle" /\ [NoSync EXCEPT !.at = "dead"].at = "dead"
BY DEF NoSync, IsSync, SyncHolds, Busy

LEMMA SyncStep ==
    ASSUME NarrationInv, UNCHANGED <<script, revision, sound, times, reel>>,
           SyncHolds(sync', sound, times), sync'.at # "times"
    PROVE  NarrationInv'
BY DEF NarrationInv, StoringDoubted

LEMMA SyncSaveStep ==
    ASSUME NarrationInv, UNCHANGED <<revision, sound, times, reel>>,
           Sound(script', sound, times), sync' = NoSync
    PROVE  NarrationInv'
BY NoSyncHolds DEF NarrationInv, StoringDoubted

LEMMA SyncBeginsKeep ==
    ASSUME NarrationInv, NEW mode, SyncBegins(mode) PROVE NarrationInv'
<1>1. /\ Sound(script, sound, times) /\ IsSession(script) /\ PrintHolds(script)
      /\ AllDescribed(script, script.doubted, sound, times)
  BY DEF NarrationInv, Sound
<1>2. IsSync(NoSync) /\ NoSync.stored = {}
  BY DEF NoSync, IsSync
<1>3. CASE script.print = script.lines
  <2> DEFINE y1 == [NoSync EXCEPT !.at = "cached"]
             y2 == [y1 EXCEPT !.copy = script]
  <2>1. sync' = y2
    BY <1>3 DEF SyncBegins
  <2>2. IsSync(y1) /\ y1.at = "cached"
    BY <1>2, SyncAt
  <2> HIDE DEF y1
  <2>3. IsSync(y2) /\ y2.at = "cached" /\ y2.copy = script
    BY <2>2, SyncCopy
  <2> HIDE DEF y2
  <2>4. SyncHolds(y2, sound, times)
    BY <1>1, <1>3, <2>3 DEF SyncHolds, Busy
  <2> QED  BY <2>1, <2>3, <2>4, SyncStep DEF SyncBegins
<1>4. CASE script.print # script.lines
  <2> DEFINE y1 == [NoSync EXCEPT !.at = "asking"]
             y2 == [y1 EXCEPT !.todo = Needed(mode)]
             y3 == [y2 EXCEPT !.copy = script]
  <2>1. sync' = y3
    BY <1>4 DEF SyncBegins
  <2>2. IsSync(y1) /\ y1.at = "asking" /\ y1.stored = {}
    BY <1>2, SyncAt
  <2> HIDE DEF y1
  <2>3. IsSync(y2) /\ y2.at = "asking" /\ y2.stored = {} /\ y2.todo = Needed(mode)
    BY <2>2, SyncTodo
  <2> HIDE DEF y2
  <2>4. /\ IsSync(y3) /\ y3.at = "asking" /\ y3.stored = {} /\ y3.todo = Needed(mode)
        /\ y3.copy = script
    BY <2>3, SyncCopy
  <2> HIDE DEF y3
  <2>5. Needed(mode) \subseteq Beats
    BY <1>1 DEF Needed, Targets, IsSession
  <2>6. \A c \in Beats \ Needed(mode) :
            c \in DOMAIN script.voices /\ script.voices[c].print = script.lines[c]
    BY DEF Needed
  <2>7. script.doubted \cup {} = script.doubted
    OBVIOUS
  <2>8. AllDescribed(script, script.doubted \cup {}, sound, times)
    BY <1>1, <2>7
  <2>9. Spoke(y3, sound, times)
    BY <1>1, <2>4, <2>5, <2>6, <2>8 DEF Spoke
  <2>10. SyncHolds(y3, sound, times)
    BY <2>4, <2>9 DEF SyncHolds, Busy
  <2> QED  BY <2>1, <2>4, <2>10, SyncStep DEF SyncBegins
<1> QED  BY <1>3, <1>4

LEMMA SpokeSame ==
    ASSUME NEW y, NEW z, NEW snd, NEW tms, Spoke(y, snd, tms), z.copy = y.copy,
           z.todo = y.todo, z.stored = y.stored, y.at # "times", z.at # "times"
    PROVE  Spoke(z, snd, tms)
BY DEF Spoke, Alone

LEMMA SpeaksKeep ==
    ASSUME NarrationInv, NEW pace, NEW form, Speaks(pace, form) PROVE NarrationInv'
<1>1. \E take : take.line = Line /\ sync' = [sync EXCEPT !.at = "sound", !.take = take]
  BY DEF Speaks
<1>2. PICK take : take.line = Line /\ sync' = [sync EXCEPT !.at = "sound", !.take = take]
  BY <1>1
<1> DEFINE y1 == [sync EXCEPT !.at = "sound"]
           y2 == [y1 EXCEPT !.take = take]
<1>3. sync' = y2
  BY <1>2
<1>4. IsSync(sync) /\ Spoke(sync, sound, times) /\ sync.at = "asking" /\ sync.todo # {}
  BY DEF Speaks, NarrationInv, SyncHolds, Busy
<1>5. /\ IsSync(y1) /\ y1.at = "sound" /\ y1.todo = sync.todo /\ y1.copy = sync.copy
      /\ y1.stored = sync.stored
  BY <1>4, SyncAt
<1> HIDE DEF y1
<1>6. /\ IsSync(y2) /\ y2.at = "sound" /\ y2.todo = sync.todo /\ y2.copy = sync.copy
      /\ y2.stored = sync.stored /\ y2.take = take
  BY <1>5, SyncTake
<1> HIDE DEF y2
<1>7. Spoke(y2, sound, times)
  BY <1>4, <1>6, SpokeSame
<1>8. Taken(y2, sound)
  BY <1>2, <1>4, <1>6 DEF Taken, Line, Turn
<1>9. SyncHolds(y2, sound, times)
  BY <1>6, <1>7, <1>8 DEF SyncHolds, Busy
<1> QED  BY <1>3, <1>6, <1>9, SyncStep DEF Speaks

(* What has been heard stays right when its film doubts more. *)
LEMMA HeardDoubting ==
    ASSUME NEW s, NEW t, NEW b, NEW h, HeardRight(s, b, h), t.lines = s.lines,
           t.voices = s.voices, s.doubted \subseteq t.doubted
    PROVE  HeardRight(t, b, h)
BY DEF HeardRight

LEMMA ReelDoubting ==
    ASSUME NEW r, NEW snd, NEW tms, NEW p, NEW take, ReelHolds(r, snd, tms), r.at # "idle"
    PROVE  LET z == [r EXCEPT !.copy.doubted = @ \cup {p}]
           IN  /\ ReelHolds(z, Put(snd, p, take), tms)
               /\ z.at = r.at /\ p \in z.copy.doubted
<1> DEFINE c == [r.copy EXCEPT !.doubted = @ \cup {p}]
           z == [r EXCEPT !.copy = c]
<1>1. [r EXCEPT !.copy.doubted = @ \cup {p}] = z
  OBVIOUS
<1>2. /\ Sound(c, Put(snd, p, take), tms) /\ c.lines = r.copy.lines /\ c.voices = r.copy.voices
      /\ c.state = r.copy.state /\ c.doubted = r.copy.doubted \cup {p}
  BY SoundDoubting DEF ReelHolds
<1> HIDE DEF c
<1>3. IsReel(z) /\ z.at = r.at /\ z.todo = r.todo /\ z.copy = c /\ z.heard = r.heard
  BY ReelCopy DEF ReelHolds
<1> HIDE DEF z
<1>4. \A b \in DOMAIN z.heard : HeardRight(z.copy, b, z.heard[b])
  BY <1>2, <1>3, HeardDoubting DEF ReelHolds
<1>5. ASSUME r.at = "drawing"
      PROVE  LET b == Least(z.todo)
                 q == z.copy.voices[b].print
             IN  /\ z.todo # {} /\ b \in DOMAIN z.heard
                 /\ DOMAIN z.heard[b] = {"sound"}
                 /\ q \notin z.copy.doubted => z.heard[b].sound = Put(snd, p, take)[q]
  <2> DEFINE b == Least(r.todo)
             q == r.copy.voices[b].print
  <2>1. /\ r.todo # {} /\ b \in DOMAIN r.heard /\ DOMAIN r.heard[b] = {"sound"}
        /\ q \notin r.copy.doubted => r.heard[b].sound = snd[q]
        /\ Sound(r.copy, snd, tms) /\ r.copy.state = "current" /\ r.todo \subseteq Beats
    BY <1>5 DEF ReelHolds
  <2>2. b \in DOMAIN r.copy.voices
    <3>1. b \in Beats
      BY <2>1, LeastIsOne
    <3> QED  BY <2>1, <3>1, UnsetIsNoScript DEF Sound, PrintHolds, IsSession
  <2>3. q \in DOMAIN snd
    BY <2>1, <2>2 DEF Sound, AllDescribed, DescribedBy
  <2> HIDE DEF b
  <2>4. q # p => Put(snd, p, take)[q] = snd[q]
    BY <2>3 DEF Put
  <2> QED  BY <1>2, <1>3, <2>1, <2>4 DEF b
<1>6. ReelHolds(z, Put(snd, p, take), tms)
  BY <1>2, <1>3, <1>4, <1>5 DEF ReelHolds
<1> QED  BY <1>1, <1>2, <1>3, <1>6

LEMMA ReelAfter ==
    ASSUME NEW r, NEW snd, NEW tms, NEW p, NEW take, ReelHolds(r, snd, tms), r.at # "idle",
           NEW z, z = [r EXCEPT !.copy.doubted = @ \cup {p}]
    PROVE  /\ ReelHolds(z, Put(snd, p, take), tms)
           /\ z.at = r.at /\ p \in z.copy.doubted
<1>1. LET u == [r EXCEPT !.copy.doubted = @ \cup {p}]
      IN  /\ ReelHolds(u, Put(snd, p, take), tms)
          /\ u.at = r.at /\ p \in u.copy.doubted
  BY ReelDoubting
<1> QED  BY <1>1

LEMMA StoreSoundKeeps == ASSUME NarrationInv, StoreSound PROVE NarrationInv'
<1> DEFINE p == Line
           snd == Put(sound, p, sync.take)
           y1 == [sync EXCEPT !.at = "times"]
           w == sync.stored \cup {p}
           y2 == [y1 EXCEPT !.stored = w]
<1>1. /\ sound' = snd /\ times' = times /\ sync' = y2
      /\ script' = [script EXCEPT !.doubted = @ \cup {p}]
      /\ revision # Unset => revision' = [revision EXCEPT !.doubted = @ \cup {p}]
      /\ revision = Unset => revision' = Unset
      /\ reel.at = "idle" => reel' = reel
      /\ reel.at # "idle" => reel' = [reel EXCEPT !.copy.doubted = @ \cup {p}]
  BY DEF StoreSound, Stored
<1>2. /\ IsSync(sync) /\ Spoke(sync, sound, times) /\ Taken(sync, sound) /\ sync.at = "sound"
  BY DEF StoreSound, NarrationInv, SyncHolds, Busy
<1>3. p = sync.copy.lines[Least(sync.todo)] /\ sync.todo # {} /\ sync.take.line = p
  BY <1>2 DEF Taken, Line, Turn
<1> HIDE DEF p
<1>4. /\ IsSync(y1) /\ y1.at = "times" /\ y1.todo = sync.todo /\ y1.copy = sync.copy
      /\ y1.take = sync.take /\ y1.stored = sync.stored
  BY <1>2, SyncAt
<1> HIDE DEF y1, w
<1>5. /\ IsSync(y2) /\ y2.at = "times" /\ y2.todo = sync.todo /\ y2.copy = sync.copy
      /\ y2.take = sync.take /\ y2.stored = w
  BY <1>4, SyncStored
<1> HIDE DEF y2
<1> USE DEF w
<1>6. p \in DOMAIN snd /\ snd[p] = sync.take
  BY DEF Put
<1>7. \A q \in DOMAIN sound : q # p => snd[q] = sound[q]
  BY DEF Put
<1>8. DOMAIN snd = DOMAIN sound \cup {p}
  BY DEF Put
<1>9. Spoke(y2, snd, times)
  <2>1. AllDescribed(y2.copy, y2.copy.doubted \cup y2.stored, snd, times)
    BY <1>2, <1>5, AllDescribedKept DEF Spoke
  <2>2. ASSUME NEW c \in Beats \ y2.todo, y2.copy.lines[c] \in y2.stored, Alone(y2, c),
               y2.copy.lines[c] # p
        PROVE  LET q == y2.copy.lines[c]
               IN  snd[q] = times[q] /\ snd[q].length = y2.copy.voices[c].length
    <3> DEFINE q == sync.copy.lines[c]
    <3>1. q \in sync.stored /\ Alone(sync, c) /\ c \in Beats \ sync.todo /\ q # p
      BY <1>5, <2>2 DEF Alone
    <3>2. sound[q] = times[q] /\ sound[q].length = sync.copy.voices[c].length
      BY <1>2, <3>1 DEF Spoke
    <3>3. q \in DOMAIN sound
      <4>1. c \in DOMAIN sync.copy.voices /\ sync.copy.voices[c].print = q
        BY <1>2, <3>1 DEF Spoke
      <4> QED  BY <1>2, <4>1 DEF Spoke, AllDescribed, DescribedBy
    <3> QED  BY <1>5, <1>7, <3>1, <3>2, <3>3
  <2> QED  BY <1>2, <1>3, <1>5, <2>1, <2>2 DEF Spoke
<1>10. Taken(y2, snd)
  BY <1>3, <1>5, <1>6 DEF Taken
<1>11. SyncHolds(y2, snd, times)
  BY <1>5, <1>9, <1>10 DEF SyncHolds, Busy
<1>12. Sound(script', snd, times) /\ p \in script'.doubted
  BY <1>1, SoundAfter DEF NarrationInv
<1>13. revision' # Unset => Sound(revision', snd, times) /\ p \in revision'.doubted
  BY <1>1, SoundAfter DEF NarrationInv
<1>14. ReelHolds(reel', snd, times) /\ (reel'.at # "idle" => p \in reel'.copy.doubted)
  <2>1. CASE reel.at = "idle"
    BY <1>1, <2>1 DEF NarrationInv, ReelHolds
  <2>2. CASE reel.at # "idle"
    BY <1>1, <2>2, ReelAfter DEF NarrationInv
  <2> QED  BY <2>1, <2>2
<1>15. \A q \in DOMAIN snd : snd[q].line = q
  BY <1>3, <1>6, <1>7, <1>8 DEF NarrationInv
<1>16. Line' = p
  BY <1>1, <1>3, <1>5 DEF Line, Turn
<1> HIDE DEF snd
<1> QED
  BY <1>1, <1>11, <1>12, <1>13, <1>14, <1>15, <1>16 DEF NarrationInv, StoringDoubted

LEMMA ReelThrough ==
    ASSUME NEW r, NEW snd, NEW tms, NEW p, NEW take, ReelHolds(r, snd, tms),
           r.at # "idle" => p \in r.copy.doubted
    PROVE  ReelHolds(r, snd, Put(tms, p, take))
BY SoundThrough DEF ReelHolds

LEMMA StoreTimesKeep == ASSUME NarrationInv, StoreTimes PROVE NarrationInv'
<1> DEFINE p == Line
           turn == Turn
           take == sync.take
           tms == Put(times, p, take)
           v == [print |-> p, length |-> take.length]
           vs == Put(sync.copy.voices, turn, v)
           cp == [sync.copy EXCEPT !.voices = vs]
           td == sync.todo \ {turn}
           y1 == [sync EXCEPT !.at = "asking"]
           y2 == [y1 EXCEPT !.todo = td]
           y3 == [y2 EXCEPT !.take = Unset]
           y4 == [y3 EXCEPT !.copy = cp]
<1>1. /\ times' = tms /\ sync' = y4
      /\ UNCHANGED <<script, revision, sound, reel>>
  BY DEF StoreTimes
<1>2. /\ IsSync(sync) /\ Spoke(sync, sound, times) /\ Taken(sync, sound) /\ sync.at = "times"
  BY DEF StoreTimes, NarrationInv, SyncHolds, Busy
<1>3. /\ turn = Least(sync.todo) /\ p = sync.copy.lines[turn] /\ sync.todo # {}
      /\ p \in sync.stored /\ p \in DOMAIN sound /\ sound[p] = take
  BY <1>2 DEF Taken, Line, Turn
<1>4. turn \in sync.todo /\ turn \in Beats
  BY <1>2, <1>3, LeastIsOne DEF Spoke
<1> HIDE DEF p, turn, take
<1>5. v.print = p /\ v.length = take.length
  OBVIOUS
<1> HIDE DEF v
<1>6. /\ DOMAIN vs = DOMAIN sync.copy.voices \cup {turn} /\ vs[turn] = v
      /\ \A c \in DOMAIN sync.copy.voices : c # turn => vs[c] = sync.copy.voices[c]
  BY DEF Put
<1>7. /\ DOMAIN tms = DOMAIN times \cup {p} /\ tms[p] = take
      /\ \A q \in DOMAIN times : q # p => tms[q] = times[q]
  BY DEF Put
<1> HIDE DEF vs
<1>8. /\ HasFields(cp) /\ cp.lines = sync.copy.lines /\ cp.voices = vs
      /\ cp.stale = sync.copy.stale /\ cp.doubted = sync.copy.doubted
  BY <1>2, SetVoices DEF Spoke, IsSession
<1> HIDE DEF cp, td
<1>9. /\ IsSync(y1) /\ y1.at = "asking" /\ y1.todo = sync.todo /\ y1.copy = sync.copy
      /\ y1.stored = sync.stored
  BY <1>2, SyncAt
<1> HIDE DEF y1
<1>10. /\ IsSync(y2) /\ y2.at = "asking" /\ y2.todo = td /\ y2.copy = sync.copy
       /\ y2.stored = sync.stored
  BY <1>9, SyncTodo
<1> HIDE DEF y2
<1>11. /\ IsSync(y3) /\ y3.at = "asking" /\ y3.todo = td /\ y3.copy = sync.copy
       /\ y3.stored = sync.stored
  BY <1>10, SyncTake
<1> HIDE DEF y3
<1>12. /\ IsSync(y4) /\ y4.at = "asking" /\ y4.todo = td /\ y4.copy = cp
       /\ y4.stored = sync.stored
  BY <1>11, SyncCopy
<1> HIDE DEF y4
<1>13. Spoke(y4, sound, tms)
  <2>1. IsSession(y4.copy) /\ y4.todo \subseteq Beats
    BY <1>2, <1>4, <1>6, <1>8, <1>12 DEF Spoke, IsSession, td
  <2>2. \A c \in Beats \ y4.todo : c = turn \/ c \in Beats \ sync.todo
    BY <1>12 DEF td
  <2>3. AllDescribed(y4.copy, y4.copy.doubted \cup y4.stored, sound, tms)
    <3> SUFFICES ASSUME NEW c \in DOMAIN vs
                 PROVE  DescribedBy(vs[c], sync.copy.doubted \cup sync.stored, sound, tms)
      BY <1>8, <1>12 DEF AllDescribed
    <3>1. CASE c = turn
      BY <1>3, <1>5, <1>6, <1>7, <3>1 DEF DescribedBy
    <3>2. CASE c # turn
      <4>1. DescribedBy(sync.copy.voices[c], sync.copy.doubted \cup sync.stored, sound, times)
        BY <1>2, <1>6, <3>2 DEF Spoke, AllDescribed
      <4>2. DescribedBy(sync.copy.voices[c], sync.copy.doubted \cup sync.stored, sound, tms)
        BY <1>3, <4>1, DescribedKept
      <4> QED  BY <1>6, <3>2, <4>2
    <3> QED  BY <3>1, <3>2
  <2>4. \A c \in Beats \ y4.todo :
            c \in DOMAIN y4.copy.voices /\ y4.copy.voices[c].print = y4.copy.lines[c]
    BY <1>2, <1>3, <1>5, <1>6, <1>8, <1>12, <2>2 DEF Spoke
  <2>5. ASSUME NEW c \in Beats \ y4.todo, y4.copy.lines[c] \in y4.stored, Alone(y4, c)
        PROVE  LET q == y4.copy.lines[c]
               IN  sound[q] = tms[q] /\ sound[q].length = y4.copy.voices[c].length
    <3> DEFINE q == sync.copy.lines[c]
    <3>1. CASE c = turn
      BY <1>3, <1>5, <1>6, <1>7, <1>8, <1>12, <3>1
    <3>2. CASE c # turn
      <4>1. q # p /\ c \in Beats \ sync.todo /\ q \in sync.stored
        BY <1>3, <1>4, <1>8, <1>12, <2>2, <2>5, <3>2 DEF Alone, td
      <4>2. Alone(sync, c)
        BY <1>8, <1>12, <2>5 DEF Alone, td
      <4>3. sound[q] = times[q] /\ sound[q].length = sync.copy.voices[c].length
        BY <1>2, <1>3, <4>1, <4>2 DEF Spoke
      <4>4. q \in DOMAIN times /\ c \in DOMAIN sync.copy.voices
        <5>1. c \in DOMAIN sync.copy.voices /\ sync.copy.voices[c].print = q
          BY <1>2, <4>1 DEF Spoke
        <5> QED  BY <1>2, <5>1 DEF Spoke, AllDescribed, DescribedBy
      <4> QED  BY <1>6, <1>7, <1>8, <1>12, <3>2, <4>1, <4>3, <4>4
    <3> QED  BY <3>1, <3>2
  <2> QED  BY <1>12, <2>1, <2>3, <2>4, <2>5 DEF Spoke
<1>14. SyncHolds(y4, sound, tms)
  BY <1>12, <1>13 DEF SyncHolds, Busy
<1>15. /\ p \in script.doubted /\ (revision # Unset => p \in revision.doubted)
       /\ reel.at # "idle" => p \in reel.copy.doubted
  BY <1>2 DEF NarrationInv, StoringDoubted, p
<1>16. Sound(script, sound, tms) /\ (revision # Unset => Sound(revision, sound, tms))
  BY <1>15, SoundThrough DEF NarrationInv
<1>17. ReelHolds(reel, sound, tms)
  BY <1>15, ReelThrough DEF NarrationInv
<1> HIDE DEF tms
<1> QED
  BY <1>1, <1>12, <1>14, <1>16, <1>17 DEF NarrationInv, StoringDoubted

LEMMA SyncSavesKeep == ASSUME NarrationInv, SyncSaves PROVE NarrationInv'
<1> DEFINE s == sync.copy
           more == (s.doubted \ sync.stored) \cup {p \in sync.stored : SpokenTwice(s, p)}
           s1 == [s EXCEPT !.captions = s.lines]
           s2 == [s1 EXCEPT !.state = "current"]
           s3 == [s2 EXCEPT !.stale = {}]
           s4 == [s3 EXCEPT !.print = s.lines]
           s5 == [s4 EXCEPT !.doubted = more]
<1>1. script' = s5 /\ UNCHANGED <<revision, sound, times, reel>> /\ sync' = NoSync
  BY DEF SyncSaves
<1>2. Spoke(sync, sound, times) /\ sync.todo = {} /\ sync.at = "asking"
  BY DEF SyncSaves, NarrationInv, SyncHolds, Busy
<1>3. IsSession(s) /\ HasFields(s)
  BY <1>2 DEF Spoke, IsSession
<1>4. /\ DOMAIN s.voices = Beats
      /\ \A c \in Beats : s.voices[c].print = s.lines[c]
  BY <1>2, <1>3 DEF Spoke, IsSession
<1> HIDE DEF more
<1>5. HasFields(s1) /\ s1.lines = s.lines /\ s1.voices = s.voices
  BY <1>3, SetCaptions
<1> HIDE DEF s1
<1>6. HasFields(s2) /\ s2.lines = s.lines /\ s2.voices = s.voices
  BY <1>5, SetState
<1> HIDE DEF s2
<1>7. HasFields(s3) /\ s3.lines = s.lines /\ s3.voices = s.voices /\ s3.stale = {}
  BY <1>6, SetStale
<1> HIDE DEF s3
<1>8. /\ HasFields(s4) /\ s4.lines = s.lines /\ s4.voices = s.voices /\ s4.stale = {}
      /\ s4.print = s.lines
  BY <1>7, SetPrint
<1> HIDE DEF s4
<1>9. /\ HasFields(s5) /\ s5.lines = s.lines /\ s5.voices = s.voices /\ s5.stale = {}
      /\ s5.print = s.lines /\ s5.doubted = more
  BY <1>8, SetDoubted
<1> HIDE DEF s5
<1>10. IsSession(s5) /\ PrintHolds(s5)
  BY <1>3, <1>4, <1>9 DEF IsSession, PrintHolds
<1>11. ASSUME NEW c \in Beats
       PROVE  DescribedBy(s.voices[c], more, sound, times)
  <2> DEFINE q == s.lines[c]
  <2>1. s.voices[c].print = q
    BY <1>4
  <2>2. DescribedBy(s.voices[c], s.doubted \cup sync.stored, sound, times)
    BY <1>2, <1>4 DEF Spoke, AllDescribed
  <2>3. CASE q \in sync.stored /\ ~SpokenTwice(s, q)
    <3>1. Alone(sync, c)
      BY <1>2, <1>4, <2>3 DEF Alone, SpokenTwice
    <3>2. sound[q] = times[q] /\ sound[q].length = s.voices[c].length
      BY <1>2, <2>3, <3>1 DEF Spoke
    <3> QED  BY <2>1, <2>2, <3>2 DEF DescribedBy
  <2>4. CASE q \in sync.stored /\ SpokenTwice(s, q)
    <3>1. q \in more
      BY <2>4 DEF more
    <3> QED  BY <2>1, <2>2, <3>1 DEF DescribedBy
  <2>5. CASE q \notin sync.stored
    <3>1. q \in s.doubted => q \in more
      BY <2>5 DEF more
    <3> QED  BY <2>1, <2>2, <2>5, <3>1 DEF DescribedBy
  <2> QED  BY <2>3, <2>4, <2>5
<1>12. Sound(s5, sound, times)
  BY <1>4, <1>9, <1>10, <1>11 DEF Sound, AllDescribed
<1> QED  BY <1>1, <1>12, SyncSaveStep

LEMMA SyncEndsKeep == ASSUME NarrationInv, SyncCached \/ NoSpeech \/ SyncStops PROVE NarrationInv'
<1>1. CASE SyncCached
  <2> DEFINE s1 == [sync.copy EXCEPT !.state = "current"]
             s2 == [s1 EXCEPT !.stale = {}]
  <2>1. script' = s2 /\ UNCHANGED <<revision, sound, times, reel>> /\ sync' = NoSync
    BY <1>1 DEF SyncCached
  <2>2. /\ Sound(sync.copy, sound, times) /\ IsSession(sync.copy) /\ PrintHolds(sync.copy)
        /\ sync.copy.print = sync.copy.lines
    BY <1>1 DEF SyncCached, NarrationInv, SyncHolds, Sound
  <2>3. /\ HasFields(s1) /\ s1.lines = sync.copy.lines /\ s1.voices = sync.copy.voices
        /\ s1.print = sync.copy.print /\ s1.doubted = sync.copy.doubted
    BY <2>2, SetState DEF IsSession
  <2> HIDE DEF s1
  <2>4. /\ HasFields(s2) /\ s2.lines = sync.copy.lines /\ s2.voices = sync.copy.voices
        /\ s2.print = sync.copy.print /\ s2.doubted = sync.copy.doubted /\ s2.stale = {}
    BY <2>3, SetStale
  <2> HIDE DEF s2
  <2>5. IsSession(s2) /\ PrintHolds(s2)
    BY <2>2, <2>4 DEF IsSession, PrintHolds
  <2>6. Sound(s2, sound, times)
    BY <2>2, <2>4, <2>5, SoundEdit
  <2> QED  BY <2>1, <2>6, SyncSaveStep
<1>2. CASE NoSpeech \/ SyncStops
  <2>1. /\ UNCHANGED <<script, revision, sound, times, reel>>
        /\ sync' = NoSync \/ sync' = [NoSync EXCEPT !.at = "dead"]
    BY <1>2 DEF NoSpeech, SyncStops
  <2>2. SyncHolds(sync', sound, times) /\ sync'.at # "times"
    BY <2>1, NoSyncHolds
  <2> QED  BY <2>1, <2>2, SyncStep
<1> QED  BY <1>1, <1>2

LEMMA SyncActsKeep == ASSUME NarrationInv, SyncActs PROVE NarrationInv'
BY SyncBeginsKeep, SpeaksKeep, StoreSoundKeeps, StoreTimesKeep, SyncSavesKeep, SyncEndsKeep
   DEF SyncActs

LEMMA ReelStep ==
    ASSUME NarrationInv, UNCHANGED <<script, revision, sound, times, sync>>,
           ReelHolds(reel', sound, times),
           reel'.at # "idle" => reel'.copy = script \/ (reel.at # "idle" /\ reel'.copy = reel.copy)
    PROVE  NarrationInv'
BY DEF NarrationInv, StoringDoubted, Line, Turn

LEMMA NoReelHolds ==
    ASSUME NEW snd, NEW tms
    PROVE  ReelHolds(NoReel, snd, tms) /\ IsReel(NoReel) /\ NoReel.at = "idle"
           /\ DOMAIN NoReel.heard = {}
BY DEF NoReel, NoVoices, IsReel, ReelHolds

(* The beat that a film is at is one of its beats, and its narration is told of. *)
LEMMA SceneIs ==
    ASSUME NarrationInv, reel.at \in {"fetching", "drawing"}, reel.todo # {}
    PROVE  /\ IsReel(reel) /\ reel.todo \subseteq Beats /\ Sound(reel.copy, sound, times)
           /\ reel.copy.state = "current" /\ DOMAIN reel.heard \subseteq Beats
           /\ Scene = Least(reel.todo) /\ Scene \in reel.todo
           /\ Spoken = reel.copy.voices[Scene].print /\ Spoken = reel.copy.lines[Scene]
           /\ \A b \in DOMAIN reel.heard : HeardRight(reel.copy, b, reel.heard[b])
           /\ DescribedBy(reel.copy.voices[Scene], reel.copy.doubted, sound, times)
<1>1. /\ IsReel(reel) /\ reel.todo \subseteq Beats /\ Sound(reel.copy, sound, times)
      /\ reel.copy.state = "current" /\ DOMAIN reel.heard \subseteq Beats
      /\ \A b \in DOMAIN reel.heard : HeardRight(reel.copy, b, reel.heard[b])
  BY DEF NarrationInv, ReelHolds
<1>2. Scene = Least(reel.todo) /\ Scene \in reel.todo /\ Scene \in Beats
  BY <1>1, LeastIsOne DEF Scene
<1>3. /\ DOMAIN reel.copy.voices = Beats
      /\ reel.copy.voices[Scene].print = reel.copy.lines[Scene]
  BY <1>1, <1>2, UnsetIsNoScript DEF Sound, PrintHolds, IsSession
<1>4. DescribedBy(reel.copy.voices[Scene], reel.copy.doubted, sound, times)
  BY <1>1, <1>2, <1>3 DEF Sound, AllDescribed
<1> QED  BY <1>1, <1>2, <1>3, <1>4 DEF Spoken

LEMMA FilmBeginsKeeps == ASSUME NarrationInv, FilmBegins PROVE NarrationInv'
<1> DEFINE r1 == [NoReel EXCEPT !.at = "fetching"]
           r2 == [r1 EXCEPT !.todo = Beats]
           r3 == [r2 EXCEPT !.copy = script]
<1>1. reel' = r3 /\ UNCHANGED <<script, revision, sound, times, sync>>
  BY DEF FilmBegins
<1>2. IsReel(r1) /\ r1.at = "fetching" /\ r1.heard = NoReel.heard
  BY NoReelHolds, ReelAt
<1> HIDE DEF r1
<1>3. IsReel(r2) /\ r2.at = "fetching" /\ r2.todo = Beats /\ r2.heard = NoReel.heard
  BY <1>2, ReelTodo
<1> HIDE DEF r2
<1>4. /\ IsReel(r3) /\ r3.at = "fetching" /\ r3.todo = Beats /\ r3.heard = NoReel.heard
      /\ r3.copy = script
  BY <1>3, ReelCopy
<1> HIDE DEF r3
<1>5. Sound(script, sound, times) /\ script.state = "current" /\ DOMAIN r3.heard = {}
  BY <1>4, NoReelHolds DEF FilmBegins, NarrationInv
<1>6. ReelHolds(r3, sound, times)
  BY <1>4, <1>5 DEF ReelHolds
<1> QED  BY <1>1, <1>4, <1>6, ReelStep

LEMMA FetchSoundKeeps == ASSUME NarrationInv, FetchSound PROVE NarrationInv'
<1> DEFINE b == Scene
           p == Spoken
           h == [sound |-> sound[p]]
           hs == Put(reel.heard, b, h)
           r1 == [reel EXCEPT !.at = "drawing"]
           r2 == [r1 EXCEPT !.heard = hs]
<1>1. /\ reel' = r2 /\ UNCHANGED <<script, revision, sound, times, sync>>
      /\ reel.at = "fetching" /\ reel.todo # {}
  BY DEF FetchSound
<1>2. /\ IsReel(reel) /\ reel.todo \subseteq Beats /\ Sound(reel.copy, sound, times)
      /\ reel.copy.state = "current" /\ DOMAIN reel.heard \subseteq Beats
      /\ b = Least(reel.todo) /\ b \in reel.todo
      /\ p = reel.copy.voices[b].print /\ p = reel.copy.lines[b]
      /\ \A c \in DOMAIN reel.heard : HeardRight(reel.copy, c, reel.heard[c])
      /\ DescribedBy(reel.copy.voices[b], reel.copy.doubted, sound, times)
  BY <1>1, SceneIs
<1> HIDE DEF b, p
<1>3. h.sound = sound[p] /\ DOMAIN h = {"sound"}
  OBVIOUS
<1>4. p \in DOMAIN sound /\ sound[p].line = p
  BY <1>2 DEF DescribedBy, NarrationInv
<1>5. HeardRight(reel.copy, b, h)
  BY <1>2, <1>3, <1>4 DEF HeardRight, DescribedBy
<1> HIDE DEF h
<1>6. /\ DOMAIN hs = DOMAIN reel.heard \cup {b} /\ hs[b] = h
      /\ \A c \in DOMAIN reel.heard : c # b => hs[c] = reel.heard[c]
  BY DEF Put
<1> HIDE DEF hs
<1>7. /\ IsReel(r1) /\ r1.at = "drawing" /\ r1.todo = reel.todo /\ r1.copy = reel.copy
  BY <1>2, ReelAt
<1> HIDE DEF r1
<1>8. /\ IsReel(r2) /\ r2.at = "drawing" /\ r2.todo = reel.todo /\ r2.copy = reel.copy
      /\ r2.heard = hs
  BY <1>7, ReelHeard
<1> HIDE DEF r2
<1>9. \A c \in DOMAIN hs : HeardRight(reel.copy, c, hs[c])
  BY <1>2, <1>5, <1>6
<1>10. DOMAIN hs \subseteq Beats
  BY <1>2, <1>6
<1>11. ReelHolds(r2, sound, times)
  BY <1>1, <1>2, <1>3, <1>6, <1>8, <1>9, <1>10 DEF ReelHolds
<1> QED  BY <1>1, <1>8, <1>11, ReelStep

LEMMA LightWordsKeeps == ASSUME NarrationInv, LightWords PROVE NarrationInv'
<1>1. PICK lit : reel' = [reel EXCEPT !.at = "fetching", !.todo = @ \ {Scene},
                    !.heard = Put(@, Scene, [sound |-> @[Scene].sound, timing |-> times[Spoken],
                                             lit |-> lit])]
  BY DEF LightWords
<1> DEFINE b == Scene
           p == Spoken
           h == [sound |-> reel.heard[b].sound, timing |-> times[p], lit |-> lit]
           hs == Put(reel.heard, b, h)
           td == reel.todo \ {b}
           r1 == [reel EXCEPT !.at = "fetching"]
           r2 == [r1 EXCEPT !.todo = td]
           r3 == [r2 EXCEPT !.heard = hs]
<1>2. reel' = r3 /\ UNCHANGED <<script, revision, sound, times, sync>> /\ reel.at = "drawing"
  BY <1>1 DEF LightWords
<1>3. reel.todo # {}
  BY <1>2 DEF NarrationInv, ReelHolds
<1>4. /\ IsReel(reel) /\ reel.todo \subseteq Beats /\ Sound(reel.copy, sound, times)
      /\ reel.copy.state = "current" /\ DOMAIN reel.heard \subseteq Beats
      /\ b = Least(reel.todo) /\ b \in reel.todo
      /\ p = reel.copy.voices[b].print /\ p = reel.copy.lines[b]
      /\ \A c \in DOMAIN reel.heard : HeardRight(reel.copy, c, reel.heard[c])
      /\ DescribedBy(reel.copy.voices[b], reel.copy.doubted, sound, times)
  BY <1>2, <1>3, SceneIs
<1> HIDE DEF b, p
<1>5. /\ b \in DOMAIN reel.heard
      /\ p \notin reel.copy.doubted => reel.heard[b].sound = sound[p]
  BY <1>2, <1>4 DEF NarrationInv, ReelHolds
<1>6. h.sound = reel.heard[b].sound /\ h.timing = times[p]
  OBVIOUS
<1> HIDE DEF h
<1>7. HeardRight(reel.copy, b, reel.heard[b])
  BY <1>4, <1>5
<1>8. HeardRight(reel.copy, b, h)
  BY <1>4, <1>5, <1>6, <1>7 DEF HeardRight, DescribedBy
<1>9. /\ DOMAIN hs = DOMAIN reel.heard \cup {b} /\ hs[b] = h
      /\ \A c \in DOMAIN reel.heard : c # b => hs[c] = reel.heard[c]
  BY DEF Put
<1> HIDE DEF hs, td
<1>10. IsReel(r1) /\ r1.at = "fetching" /\ r1.copy = reel.copy
  BY <1>4, ReelAt
<1> HIDE DEF r1
<1>11. IsReel(r2) /\ r2.at = "fetching" /\ r2.copy = reel.copy /\ r2.todo = td
  BY <1>10, ReelTodo
<1> HIDE DEF r2
<1>12. /\ IsReel(r3) /\ r3.at = "fetching" /\ r3.copy = reel.copy /\ r3.todo = td
       /\ r3.heard = hs
  BY <1>11, ReelHeard
<1> HIDE DEF r3
<1>13. \A c \in DOMAIN hs : HeardRight(reel.copy, c, hs[c])
  BY <1>4, <1>8, <1>9
<1>14. DOMAIN hs \subseteq Beats /\ td \subseteq Beats
  BY <1>4, <1>9 DEF td
<1>15. ReelHolds(r3, sound, times)
  BY <1>4, <1>12, <1>13, <1>14 DEF ReelHolds
<1> QED  BY <1>2, <1>12, <1>15, ReelStep

LEMMA FilmEndsKeep ==
    ASSUME NarrationInv, NeverLit \/ FilmSaves \/ FilmStops PROVE NarrationInv'
<1>1. CASE NeverLit
  <2> DEFINE r1 == [reel EXCEPT !.at = "hung"]
  <2>1. reel' = r1 /\ UNCHANGED <<script, revision, sound, times, sync>> /\ reel.at = "drawing"
    BY <1>1 DEF NeverLit
  <2>2. /\ ReelHolds(reel, sound, times) /\ IsReel(reel)
    BY DEF NarrationInv, ReelHolds
  <2>3. /\ IsReel(r1) /\ r1.at = "hung" /\ r1.todo = reel.todo /\ r1.copy = reel.copy
        /\ r1.heard = reel.heard
    BY <2>2, ReelAt
  <2> HIDE DEF r1
  <2>4. ReelHolds(r1, sound, times)
    BY <2>1, <2>2, <2>3 DEF ReelHolds
  <2> QED  BY <2>1, <2>3, <2>4, ReelStep
<1>2. CASE FilmSaves
  <2>1. /\ script' = reel.copy /\ reel' = NoReel /\ UNCHANGED <<revision, sound, times, sync>>
        /\ Sound(reel.copy, sound, times) /\ reel.at # "idle"
    BY <1>2 DEF FilmSaves, NarrationInv, ReelHolds
  <2>2. Line' = Line
    BY <2>1 DEF Line, Turn
  <2> QED
    BY <2>1, <2>2, NoReelHolds DEF NarrationInv, StoringDoubted
<1>3. CASE FilmStops
  <2>1. reel' = NoReel /\ UNCHANGED <<script, revision, sound, times, sync>>
    BY <1>3 DEF FilmStops
  <2> QED  BY <2>1, NoReelHolds, ReelStep
<1> QED  BY <1>1, <1>2, <1>3

LEMMA NarrationInvStep ==
    ASSUME NarrationInv, [NarrationNext]_narrationVars PROVE NarrationInv'
<1>1. CASE EditActs
  BY <1>1, EditsKeep
<1>2. CASE SyncActs
  BY <1>2, SyncActsKeep
<1>3. CASE FilmActs
  BY <1>3, FilmBeginsKeeps, FetchSoundKeeps, LightWordsKeeps, FilmEndsKeep DEF FilmActs
<1>4. CASE UNCHANGED narrationVars
  BY <1>4 DEF narrationVars, NarrationInv, StoringDoubted, Line, Turn
<1> QED  BY <1>1, <1>2, <1>3, <1>4 DEF NarrationNext

LEMMA NarrationSays == ASSUME NarrationInv PROVE VoiceAsTimed
<1>1. Sound(script, sound, times)
  BY DEF NarrationInv
<1>2. Voiced(script)
  BY <1>1, UnsetIsNoScript DEF Sound, IsSession, PrintHolds, Voiced
<1>3. \A b \in DOMAIN script.voices : Described(script, b, script.doubted)
  BY <1>1 DEF Sound, AllDescribed, DescribedBy, Described
<1>4. \A b \in DOMAIN reel.heard : HeardRight(reel.copy, b, reel.heard[b])
  BY DEF NarrationInv, ReelHolds
<1> QED  BY <1>2, <1>3, <1>4 DEF VoiceAsTimed, HeardRight

(* What a sync stores for a beat and what the session says of it are of one take, and
   a film hears its own sentences and lights their words by the times of what it hears,
   whatever edits, syncs and films do meanwhile and wherever a sync stops between its
   writes: syncStoryVoice, renderStory and the editors of the session. *)
THEOREM NarrationOfOneTake == NarrationSpec => []VoiceAsTimed
<1>1. NarrationInit => NarrationInv
  BY NarrationStarts
<1>2. NarrationInv /\ [NarrationNext]_narrationVars => NarrationInv'
  BY NarrationInvStep
<1>3. NarrationInv => VoiceAsTimed
  BY NarrationSays
<1> QED  BY <1>1, <1>2, <1>3, PTL DEF NarrationSpec
=============================================================================
