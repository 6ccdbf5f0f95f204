------------------------------ MODULE PlanGuards ------------------------------
(***************************************************************************)
(* enforceScriptDailyCap (planGuards.js), in front of /generate and /plan: *)
(* a counter per calendar day in the account document.  A request takes    *)
(* its day before its transaction reads and raises the counter.            *)
(***************************************************************************)
EXTENDS Naturals

CONSTANTS
    Scripters,   \* requests in flight
    MaxPerDay,   \* enforceScriptDailyCap(maxPerDay)
    Days,        \* bound of the model: calendar days that pass
    NoDay        \* null

ASSUME CapIsNat == MaxPerDay \in Nat /\ Days \in Nat
ASSUME NoDayIsNone == NoDay \notin Nat

VARIABLES
    today,       \* the calendar day
    todayKey,    \* the day each request in flight has taken
    scriptDay,   \* scriptDayKey of the account
    scriptCount, \* scriptCountToday of the account
    let,         \* history: requests let through, by the day they had taken
    wentBack     \* history: the counter was reset to an earlier day

capVars == <<today, todayKey, scriptDay, scriptCount, let, wentBack>>

-----------------------------------------------------------------------------
TakeDay(c) ==
    /\ todayKey[c] = NoDay
    /\ todayKey' = [todayKey EXCEPT ![c] = today]
    /\ UNCHANGED <<today, scriptDay, scriptCount, let, wentBack>>

CountFor(day) == IF scriptDay = day THEN scriptCount ELSE 0

(* Mutant: one request too many. *)
UpToAndIncluding(day) == CountFor(day) <= MaxPerDay

MayScript(day) == CountFor(day) < MaxPerDay

LetThrough(c) ==
    LET day == todayKey[c]
    IN  /\ day # NoDay
        /\ MayScript(day)
        /\ scriptDay' = day
        /\ scriptCount' = CountFor(day) + 1
        /\ let' = [let EXCEPT ![day] = @ + 1]
        /\ wentBack' = (wentBack \/ (scriptDay # NoDay /\ day < scriptDay))
        /\ todayKey' = [todayKey EXCEPT ![c] = NoDay]
        /\ UNCHANGED today

(* 429, or the transaction throws: 500. *)
TurnAway(c) ==
    /\ todayKey[c] # NoDay
    /\ todayKey' = [todayKey EXCEPT ![c] = NoDay]
    /\ UNCHANGED <<today, scriptDay, scriptCount, let, wentBack>>

Midnight ==
    /\ today < Days
    /\ today' = today + 1
    /\ UNCHANGED <<todayKey, scriptDay, scriptCount, let, wentBack>>

CapInit ==
    /\ today = 0
    /\ todayKey = [c \in Scripters |-> NoDay]
    /\ scriptDay = NoDay
    /\ scriptCount = 0
    /\ let = [d \in 0..Days |-> 0]
    /\ wentBack = FALSE

CapNext ==
    \/ \E c \in Scripters : TakeDay(c) \/ LetThrough(c) \/ TurnAway(c)
    \/ Midnight

CapSpec == CapInit /\ [][CapNext]_capVars

-----------------------------------------------------------------------------
(* No day lets through more than the cap, with any number of requests at once
   and over midnight, as long as no request that took its day before midnight
   is counted after one that took it later: that one resets the counter. *)
DailyCapKept ==
    ~wentBack => \A d \in 0..Days : let[d] <= MaxPerDay

(* "Daily script generation limit (300/day)" *)
DailyLimit == \A d \in 0..Days : let[d] <= MaxPerDay
=============================================================================
