----------------------------- MODULE ClipSearch -----------------------------
(***************************************************************************)
(* The search for the clips of a shot.  A search asks the stock libraries  *)
(* at once; each keeps, in every process, what it answered to a query, and *)
(* has a record of its failures there and, for searches of finalize jobs,  *)
(* one in Firestore that all processes share.  A library that failed often *)
(* enough is left alone for a while.                                       *)
(*                                                                         *)
(* A query stands for the query, page and size a library is asked for; an  *)
(* instant is the time left until it, 0 when it is over.                   *)
(***************************************************************************)
EXTENDS Integers, FiniteSets

CONSTANTS
    Seekers,          \* requests that search, one search after the other
    InFinalize,       \* those that run for a finalize job
    Machines,         \* processes
    Libraries,        \* "pexels", "pixabay", "nasa"
    Queries,
    FailureThreshold, \* SEARCH_PROVIDER_FAILURE_THRESHOLD
    CoolTime,         \* SEARCH_PROVIDER_COOLDOWN_MS
    ShortMemo,        \* how long a failure is kept: 60 s
    LongMemo,         \* how long an answer is kept: 12 or 24 h
    Lateness,         \* bound of the model: from reading the clock to a commit
    NoQuery           \* null

ASSUME SeekersFinalize == InFinalize \subseteq Seekers
ASSUME SearchTimes ==
    /\ FailureThreshold \in Nat \ {0} /\ CoolTime \in Nat \ {0}
    /\ ShortMemo \in Nat \ {0} /\ LongMemo \in Nat \ {0} /\ Lateness \in Nat
ASSUME NoQueryIsNone == NoQuery \notin Queries

VARIABLES
    memo,    \* mem of each library's module, by process
    health,  \* providerSearchHealth of each process
    shared,  \* finalizeControlProviderStates of the libraries
    search,  \* where each search stands
    record   \* history: failures in a row and the time since the last, by library

searchVars == <<memo, health, shared, search, record>>

Well == [failures |-> 0, cooldown |-> 0]
NotKept == [clips |-> FALSE, left |-> 0, failure |-> FALSE]
Unasked == [l \in Libraries |-> "todo"]
IdleSearch == [at |-> "idle", query |-> NoQuery, home |-> NoQuery,
               answer |-> Unasked, recording |-> {}, copies |-> {}, result |-> "none yet"]

Sooner(t) == IF t > 0 THEN t - 1 ELSE 0

(* failures + 1; counts from the threshold on make no difference *)
Counted(n) == IF n < FailureThreshold THEN n + 1 ELSE n

SearchInit ==
    /\ memo = [m \in Machines |-> [l \in Libraries |-> [q \in Queries |-> NotKept]]]
    /\ health = [m \in Machines |-> [l \in Libraries |-> Well]]
    /\ shared = [l \in Libraries |-> Well]
    /\ search = [s \in Seekers |-> IdleSearch]
    /\ record = [l \in Libraries |-> [row |-> 0, since |-> 0]]

-----------------------------------------------------------------------------
(* Records of failures *)

(* Mutant: only the failure that reaches the threshold starts a cooldown. *)
FailedOnce(h, late) ==
    [failures |-> Counted(h.failures),
     cooldown |-> IF h.failures + 1 = FailureThreshold THEN CoolTime - late ELSE h.cooldown]

(* markSharedProviderTransientFailure *)
FailedShared(h, late) ==
    [failures |-> Counted(h.failures),
     cooldown |-> IF h.failures + 1 >= FailureThreshold THEN CoolTime - late ELSE h.cooldown]

(* markProviderTransientFailure *)
FailedHere(h) ==
    [failures |-> Counted(h.failures),
     cooldown |-> IF h.failures + 1 >= FailureThreshold THEN CoolTime ELSE 0]

Cooling(s, l) ==
    \/ s \in InFinalize /\ shared[l].cooldown > 0
    \/ health[search[s].home][l].cooldown > 0

ResetHere(s, l) == health' = [health EXCEPT ![search[s].home][l] = Well]
FailHere(s, l) == health' = [health EXCEPT ![search[s].home][l] = FailedHere(@)]

Answered(s, l, a) == search' = [search EXCEPT ![s].answer[l] = a]

(* For a finalize job the outcome is recorded in Firestore before it counts. *)
Outcome(s, l, a) ==
    search' = [search EXCEPT ![s].answer[l] = a,
                             ![s].recording = IF s \in InFinalize THEN @ \cup {l} ELSE @]

-----------------------------------------------------------------------------
(* searchSingleShot, for each library callProviderSearch *)

(* Some libraries may be passed by: nasa unless the query is about space, and
   any that has no key. *)
StartSearch(s, m, q) ==
    /\ search[s].at = "idle"
    /\ search[s].home \in {NoQuery, m}
    /\ \E passed \in SUBSET Libraries :
           search' = [search EXCEPT ![s] =
               [IdleSearch EXCEPT !.at = "asking", !.query = q, !.home = m,
                   !.answer = [l \in Libraries |-> IF l \in passed THEN "skipped" ELSE "todo"]]]
    /\ UNCHANGED <<memo, health, shared, record>>

Kept(s, l) == memo[search[s].home][l][search[s].query]

Todo(s, l) == search[s].at = "asking" /\ search[s].answer[l] = "todo"

LeaveAlone(s, l) ==
    /\ Todo(s, l)
    /\ Cooling(s, l)
    /\ Answered(s, l, "cooling")
    /\ UNCHANGED <<memo, health, shared, record>>

(* What is kept counts as an answer, also when it is a failure that is kept. *)
FromMemo(s, l) ==
    /\ Todo(s, l)
    /\ ~Cooling(s, l)
    /\ Kept(s, l).left > 0
    /\ ResetHere(s, l)
    /\ search' = [search EXCEPT
           ![s].answer[l] = IF Kept(s, l).clips THEN "clips" ELSE "nothing",
           ![s].recording = IF s \in InFinalize THEN @ \cup {l} ELSE @,
           ![s].copies = IF Kept(s, l).failure THEN @ \cup {l} ELSE @]
    /\ UNCHANGED <<memo, shared, record>>

AskLibrary(s, l) ==
    /\ Todo(s, l)
    /\ ~Cooling(s, l)
    /\ Kept(s, l).left = 0
    /\ Answered(s, l, "called")
    /\ UNCHANGED <<memo, health, shared, record>>

Keep(s, l, entry) == memo' = [memo EXCEPT ![search[s].home][l][search[s].query] = entry]

KeepFailure(s, l, t) == Keep(s, l, [clips |-> FALSE, left |-> t, failure |-> TRUE])

Replies(s, l, clips) ==
    /\ search[s].answer[l] = "called"
    /\ Keep(s, l, [clips |-> clips, left |-> LongMemo, failure |-> FALSE])
    /\ ResetHere(s, l)
    /\ Outcome(s, l, IF clips THEN "clips" ELSE "nothing")
    /\ UNCHANGED <<shared, record>>

(* How long a failure is kept as an answer without clips: an error status for a
   while; pexels keeps no timeout, nasa keeps for long that it could not read
   the files of what it found. *)
FailureMemos(l) ==
    CASE l = "pexels" -> {0, ShortMemo}
      [] l = "nasa" -> {ShortMemo, LongMemo}
      [] OTHER -> {ShortMemo}

(* A timeout, 429, a server error *)
FailsForNow(s, l) ==
    /\ search[s].answer[l] = "called"
    /\ \E t \in FailureMemos(l) :
           IF t = 0 THEN UNCHANGED memo ELSE KeepFailure(s, l, t)
    /\ FailHere(s, l)
    /\ Outcome(s, l, "failed")
    /\ UNCHANGED <<shared, record>>

(* Another error status: the library is not to blame. *)
Refuses(s, l) ==
    /\ search[s].answer[l] = "called"
    /\ KeepFailure(s, l, ShortMemo)
    /\ ResetHere(s, l)
    /\ Outcome(s, l, "refused")
    /\ UNCHANGED <<shared, record>>

Succeeding == {"clips", "nothing", "refused"}

Recorded(s, l, a) ==
    search' = [search EXCEPT ![s].answer[l] = a, ![s].recording = @ \ {l}]

(* markSharedProviderSuccess: a plain write *)
RecordSuccess(s, l) ==
    /\ l \in search[s].recording
    /\ search[s].answer[l] \in Succeeding
    /\ shared' = [shared EXCEPT ![l] = Well]
    /\ record' = [record EXCEPT ![l].row = 0]
    /\ Recorded(s, l, search[s].answer[l])
    /\ UNCHANGED <<memo, health>>

RecordFailure(s, l) ==
    /\ l \in search[s].recording
    /\ search[s].answer[l] \in {"failed", "caught"}
    /\ \E late \in 0..Lateness : shared' = [shared EXCEPT ![l] = FailedShared(@, late)]
    /\ record' = [record EXCEPT ![l] = [row |-> Counted(@.row), since |-> 0]]
    /\ Recorded(s, l, "failed")
    /\ UNCHANGED <<memo, health>>

(* Firestore throws: whatever the library answered is taken for its failure, and
   counted in this process; that is to be recorded now, and may throw too. *)
RecordThrows(s, l) ==
    /\ l \in search[s].recording
    /\ IF search[s].answer[l] = "caught"
       THEN Recorded(s, l, "threw") /\ UNCHANGED health
       ELSE Answered(s, l, "caught") /\ FailHere(s, l)
    /\ UNCHANGED <<memo, shared, record>>

Final == Succeeding \cup {"failed", "cooling", "skipped", "threw"}
Consulted(s) == {l \in Libraries : search[s].answer[l] # "skipped"}
ForNow(s) == {l \in Libraries : search[s].answer[l] \in {"failed", "cooling"}}

(* Clips of any library will do; without any, a search that every library failed
   is to be retried.  (A search that threw answers before the others have; here
   it waits for them.) *)
FinishSearch(s) ==
    /\ search[s].at = "asking"
    /\ search[s].recording = {}
    /\ \A l \in Libraries : search[s].answer[l] \in Final
    /\ search' = [search EXCEPT ![s].at = "idle",
           ![s].result =
               IF \E l \in Libraries : search[s].answer[l] = "threw" THEN "error"
               ELSE IF \E l \in Libraries : search[s].answer[l] = "clips" THEN "clips"
               ELSE IF Consulted(s) # {} /\ ForNow(s) = Consulted(s) THEN "unavailable"
               ELSE "no clips"]
    /\ UNCHANGED <<memo, health, shared, record>>

SearchTick ==
    /\ memo' = [m \in Machines |-> [l \in Libraries |-> [q \in Queries |->
           LET e == memo[m][l][q]
           IN  IF e.left > 1 THEN [e EXCEPT !.left = @ - 1] ELSE NotKept]]]
    /\ health' = [m \in Machines |-> [l \in Libraries |-> [health[m][l] EXCEPT !.cooldown = Sooner(@)]]]
    /\ shared' = [l \in Libraries |-> [shared[l] EXCEPT !.cooldown = Sooner(@)]]
    /\ record' = [l \in Libraries |->
           [record[l] EXCEPT !.since = IF @ < CoolTime THEN @ + 1 ELSE @]]
    /\ UNCHANGED search

LibraryStep(s, l) ==
    \/ LeaveAlone(s, l) \/ FromMemo(s, l) \/ AskLibrary(s, l)
    \/ \E clips \in BOOLEAN : Replies(s, l, clips)
    \/ FailsForNow(s, l) \/ Refuses(s, l)
    \/ RecordSuccess(s, l) \/ RecordFailure(s, l) \/ RecordThrows(s, l)

SearchNext ==
    \/ \E s \in Seekers :
           \/ \E m \in Machines, q \in Queries : StartSearch(s, m, q)
           \/ \E l \in Libraries : LibraryStep(s, l)
           \/ FinishSearch(s)
    \/ SearchTick

SearchSpec == SearchInit /\ [][SearchNext]_searchVars

-----------------------------------------------------------------------------
(* Properties *)

(* However failures and successes of many processes are recorded, a library that
   failed often enough in a row, with no success recorded since, is left alone
   by all finalize jobs until the cooldown has passed since its last failure. *)
CooldownHolds ==
    \A l \in Libraries :
        record[l].row = FailureThreshold
            => shared[l].cooldown >= CoolTime - Lateness - record[l].since

(* A search that finds no clips has been told so by a library now or before:
   failures are not taken for an empty answer. *)
NoClipsIsAnAnswer ==
    \A s \in Seekers :
        search[s].result = "no clips" =>
            \/ Consulted(s) = {}
            \/ \E l \in Consulted(s) :
                   search[s].answer[l] \in Succeeding /\ l \notin search[s].copies
=============================================================================
