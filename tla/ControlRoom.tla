----------------------------- MODULE ControlRoom -----------------------------
(***************************************************************************)
(* The finalize dashboard: a verdict on the shared queue, its renders and  *)
(* its providers, and the page that shows it.                              *)
(*                                                                         *)
(* An answer is put together from four reads that are not of one moment,   *)
(* judged with the clock of the first.  Loads of the page overlap, and     *)
(* their answers come in any order.  The panel of the serving process's    *)
(* own metrics is left out: no verdict is drawn from it.  The reads and    *)
(* writes of one part of an answer are one step: how they meet the leases  *)
(* is of RenderLease and ProviderLease.  The queue is shorter than the     *)
(* limit of its query.                                                     *)
(***************************************************************************)
EXTENDS Naturals, FiniteSets, FiniteSetsExt

CONSTANTS
    Tasks,        \* finalize jobs
    Suppliers,    \* providers whose pressure is shared
    Loads,        \* loads of the page's data
    Ranges,       \* ranges of the threshold summary: green and yellow of each measure
    Slots,        \* shared render slots
    RenderLimit,  \* shared render leases
    BacklogCap,   \* shared backlog limit
    CoolTime,     \* how long a provider cools down
    GrantTime,    \* how long a slot is leased for
    MaxClock,     \* bound of the model: the clock
    MaxChanges,   \* bound of the model: changes of queue, renders and providers
    Unshown       \* null

ASSUME RoomAssumption ==
    /\ IsFiniteSet(Tasks) /\ Unshown \notin Loads
    /\ CoolTime \in Nat \ {0} /\ GrantTime \in Nat \ {0}
    /\ RenderLimit \in Nat /\ BacklogCap \in Nat /\ MaxClock \in Nat

VARIABLES
    clock,    \* Date.now()
    work,     \* attempt documents: job state and when it was last queued
    renders,  \* until when each render slot is leased
    supply,   \* provider states: until when it cools, failures, until when all slots are leased
    bands,    \* phase6-threshold-summary.json: "absent", "rangeless" or "ranged"
    viewer,   \* who is signed in on the page
    load,     \* the loads: where they stand, what they found, what was so meanwhile
    page,     \* the banner, and the load whose data is shown
    changes   \* bound

roomVars == <<clock, work, renders, supply, bands, viewer, load, page, changes>>

sharedVars == <<clock, work, renders, supply>>

InLine == {t \in Tasks : work[t].state \in {"queued", "retry"}}
Retrying == {t \in Tasks : work[t].state = "retry"}
Active == {t \in Tasks : work[t].state # "none"}

Greater(a, b) == IF a > b THEN a ELSE b
Lesser(a, b) == IF a < b THEN a ELSE b

(* The oldest age by a clock; what was queued after that is no age old. *)
AgeBy(now) ==
    IF InLine = {} THEN 0
    ELSE LET first == Min({work[t].since : t \in InLine}) IN IF first < now THEN now - first ELSE 0

(* A query for one more than the limit *)
Counted == Lesser(Cardinality(Active), BacklogCap + 1)

Cooling(s, now) == supply[s].until > now

Leased(s, now) == renders[s] > now

(* What is so at this moment *)
Facts ==
    {<<"depth", Cardinality(InLine)>>, <<"age", AgeBy(clock)>>,
     <<"retries", Cardinality(Retrying)>>, <<"backlog", Counted>>}

SupplyFacts ==
    {<<IF Cooling(s, clock) THEN "cooling" ELSE "clear", s>> : s \in Suppliers}
        \cup {<<IF Leased(s, clock) THEN "leased" ELSE "free", s>> : s \in Slots}

Blank ==
    [depth |-> 0, age |-> 0, retries |-> 0, backlog |-> 0, queued |-> 0, rendering |-> {},
     cooling |-> {}, failing |-> {}, leased |-> {}, bands |-> "absent"]

Parts == {"queue", "backlog", "renders", "suppliers"}

Unloaded ==
    [at |-> "idle", by |-> "nobody", now |-> 0, till |-> 0, unread |-> Parts, found |-> Blank,
     reply |-> "none", seen |-> {}, supplied |-> {}]

Reading == {l \in Loads : load[l].at = "reading"}

-----------------------------------------------------------------------------
(* The verdict: buildSharedHealth *)

Status(measure, f) ==
    LET value == f[measure]
    IN  IF f.bands # "ranged" THEN "unknown"
        ELSE IF value > Ranges[measure].yellow THEN "bad"
        ELSE IF value > Ranges[measure].green THEN "warning"
        ELSE "healthy"

Overloaded(f) == f.backlog >= BacklogCap

Full(f) == RenderLimit > 0 /\ Cardinality(f.rendering) >= RenderLimit

(* One check after another: bad replaces what was, a warning all but bad, and the
   first of the issues is the one the banner names. *)
Raise(health, issue, verdict) ==
    [verdict |-> verdict, first |-> IF health.first = "none" THEN issue ELSE health.first]

CheckLast(health, issue, status) ==
    IF status \in {"bad", "warning"} THEN Raise(health, issue, status) ELSE health

Check(health, issue, status) ==
    IF status = "bad" THEN Raise(health, issue, "bad")
    ELSE IF status = "warning" /\ health.verdict # "bad" THEN Raise(health, issue, "warning")
    ELSE health

Health(f) ==
    LET start == [verdict |-> "healthy", first |-> "none"]
        known == Check(start, "thresholds", IF f.bands = "absent" THEN "warning" ELSE "healthy")
        backlog == Check(known, "overloaded", IF Overloaded(f) THEN "bad" ELSE "healthy")
        depth == Check(backlog, "depth", Status("depth", f))
        age == Check(depth, "age", Status("age", f))
        retries == Check(age, "retries", Status("retries", f))
        cooled == IF f.cooling = {} THEN retries
                  ELSE Raise(retries, "cooling",
                             IF retries.verdict = "healthy" THEN "warning" ELSE retries.verdict)
    IN  IF cooled.verdict = "healthy" /\ Full(f) /\ f.backlog > 0
        THEN Raise(cooled, "renders", "warning") ELSE cooled

Verdict(f) == Health(f).verdict

Cards(f) ==
    [depth |-> Status("depth", f), age |-> Status("age", f), retries |-> Status("retries", f),
     backlog |-> IF Overloaded(f) THEN "bad" ELSE "healthy",
     renders |-> IF Full(f) /\ f.backlog > 0 THEN "warning" ELSE "healthy",
     cooling |-> IF f.cooling # {} THEN "warning" ELSE "healthy"]

(* buildFounderSummary *)
Headline(f) ==
    IF f.bands = "absent" THEN "no thresholds"
    ELSE IF Verdict(f) = "bad" THEN "unhealthy"
    ELSE IF Verdict(f) = "warning" THEN IF f.cooling # {} THEN "providers" ELSE "drifting"
    ELSE "healthy"

(* buildSharedFlowSnapshot, which draws its own conclusions *)
Drain(f) ==
    IF f.backlog > 0 THEN IF Full(f) THEN "waits for renders" ELSE "waits for something"
    ELSE IF Full(f) THEN "renders drain" ELSE "drains"

Strained(f) == f.cooling \cup f.leased \cup f.failing

SupplyHeadline(f) ==
    IF f.cooling # {} THEN IF f.backlog > 0 THEN "cooling with backlog" ELSE "cooling"
    ELSE IF f.leased # {} THEN "leased"
    ELSE IF f.failing # {} THEN "failing"
    ELSE "none"

FlowCards(f) ==
    [queued |-> IF Overloaded(f) THEN "bad" ELSE IF f.queued > 0 THEN "warning" ELSE "healthy",
     backlog |-> IF Overloaded(f) THEN "bad" ELSE IF f.backlog > 0 THEN "warning" ELSE "healthy"]
-----------------------------------------------------------------------------
(* Queue, renders and providers change while loads read them. *)

Watched ==
    load' = [l \in Loads |->
                 IF l \in Reading
                 THEN [load[l] EXCEPT !.seen = @ \cup Facts', !.supplied = @ \cup SupplyFacts']
                 ELSE load[l]]

Changed ==
    /\ changes < MaxChanges
    /\ changes' = changes + 1
    /\ UNCHANGED <<clock, bands, viewer, page>>
    /\ Watched

(* Admitted, given a worker, put back to wait, ended *)
QueueMoves(t) ==
    /\ \/ /\ work[t].state = "none"
          /\ work' = [work EXCEPT ![t] = [state |-> "queued", since |-> clock]]
       \/ /\ work[t].state \in {"queued", "retry"}
          /\ work' = [work EXCEPT ![t].state = "running"]
       \/ /\ work[t].state = "running"
          /\ work' = [work EXCEPT ![t] = [state |-> "retry", since |-> clock]]
       \/ /\ work[t].state = "running"
          /\ work' = [work EXCEPT ![t].state = "none"]
    /\ UNCHANGED <<renders, supply>>
    /\ Changed

(* Granted or renewed, released *)
RendersMove(s) ==
    /\ \E until \in {0, clock + GrantTime} : renders' = [renders EXCEPT ![s] = until]
    /\ UNCHANGED <<work, supply>>
    /\ Changed

SupplyMoves(s) ==
    /\ \/ supply' = [supply EXCEPT ![s].failing = TRUE]
       \/ supply' = [supply EXCEPT ![s].failing = TRUE, ![s].until = clock + CoolTime]
       \/ supply' = [supply EXCEPT ![s].failing = FALSE, ![s].until = 0]
       \/ \E until \in {0, clock + GrantTime} : supply' = [supply EXCEPT ![s].filled = until]
    /\ UNCHANGED <<work, renders>>
    /\ Changed

ClockTicks ==
    /\ clock < MaxClock
    /\ clock' = clock + 1
    /\ UNCHANGED <<work, renders, supply, bands, viewer, page, changes>>
    /\ Watched

-----------------------------------------------------------------------------
(* The data route *)

Arrive(l) ==
    /\ load[l].at = "sent"
    /\ \/ \E reply \in {"disabled", "unauthenticated"} :
              load' = [load EXCEPT ![l].at = "answered", ![l].reply = reply]
       \/ /\ load[l].by = "stranger"
          /\ load' = [load EXCEPT ![l].at = "answered", ![l].reply = "forbidden"]
       \/ /\ load[l].by = "founder"
          /\ load' = [load EXCEPT ![l].at = "reading", ![l].now = clock,
                                  ![l].seen = Facts, ![l].supplied = SupplyFacts,
                                  ![l].found.bands = bands]
    /\ UNCHANGED <<sharedVars, bands, viewer, page, changes>>

Read(l, part, found) ==
    /\ load[l].at = "reading" /\ part \in load[l].unread
    /\ load' = [load EXCEPT ![l].unread = @ \ {part}, ![l].found = found]
    /\ UNCHANGED <<clock, work, bands, viewer, page, changes>>

(* captureFinalizeQueueMetricsSnapshot: a job that has been queued since the clock
   was read passes for one that waits for its retry. *)
ReadQueue(l) ==
    /\ Read(l, "queue",
            [load[l].found EXCEPT
                !.depth = Cardinality(InLine), !.age = AgeBy(load[l].now),
                !.retries = Cardinality({t \in InLine : t \in Retrying \/ work[t].since > load[l].now})])
    /\ UNCHANGED <<renders, supply>>

(* captureFinalizeBacklogSnapshot: of a longer backlog, any of its jobs *)
ReadBacklog(l) ==
    \E jobs \in SUBSET Active :
        /\ Cardinality(jobs) = Counted
        /\ UNCHANGED <<renders, supply>>
        /\ Read(l, "backlog",
                [load[l].found EXCEPT !.backlog = Cardinality(jobs),
                                      !.queued = Cardinality({t \in jobs : work[t].state = "queued"})])

(* captureSharedRenderCapacitySnapshot, which frees what has lapsed by its clock *)
ReadRenders(l) ==
    /\ renders' = [s \in Slots |-> IF Leased(s, load[l].now) THEN renders[s] ELSE 0]
    /\ Read(l, "renders",
            [load[l].found EXCEPT !.rendering = {s \in Slots : Leased(s, load[l].now)}])
    /\ UNCHANGED supply

(* captureSharedProviderPressureSnapshot, which does so, too *)
ReadSuppliers(l) ==
    /\ supply' = [s \in Suppliers |->
                     [supply[s] EXCEPT !.filled = IF @ > load[l].now THEN @ ELSE 0]]
    /\ Read(l, "suppliers",
            [load[l].found EXCEPT !.cooling = {s \in Suppliers : Cooling(s, load[l].now)},
                                  !.failing = {s \in Suppliers : supply[s].failing},
                                  !.leased = {s \in Suppliers : supply[s].filled > load[l].now}])
    /\ UNCHANGED renders

(* buildFinalizeDashboardPayload has all it awaits, or one of it has thrown, or
   the answer is lost. *)
Conclude(l) ==
    /\ \/ /\ load[l].at = "reading" /\ load[l].unread = {}
          /\ load' = [load EXCEPT ![l].at = "answered", ![l].reply = "data", ![l].till = clock]
       \/ /\ load[l].at \in {"sent", "reading"}
          /\ load' = [load EXCEPT ![l] = [Unloaded EXCEPT !.at = "answered", !.by = load[l].by,
                                                         !.reply = "failed"]]
    /\ UNCHANGED <<sharedVars, bands, viewer, page, changes>>

-----------------------------------------------------------------------------
(* The page *)

(* loadDashboard; without a user nothing is sent. *)
Begin(l, user) ==
    /\ load[l].at = "idle"
    /\ load' = [load EXCEPT ![l].by = user,
                            ![l].at = IF user = "nobody" THEN "answered" ELSE "sent",
                            ![l].reply = IF user = "nobody" THEN "unauthenticated" ELSE "none"]
    /\ page' = [page EXCEPT !.banner = "loading"]
    /\ UNCHANGED <<sharedVars, bands, changes>>

Refresh(l) == Begin(l, viewer) /\ UNCHANGED viewer

(* onAuthStateChanged *)
ChangeUser(l) ==
    \E user \in {"nobody", "stranger", "founder"} \ {viewer} :
        /\ Begin(l, user)
        /\ viewer' = user

(* renderDashboard *)
Rendered(l) == [banner |-> Verdict(load[l].found), hidden |-> FALSE, of |-> l]

(* What cannot be shown hides what was, unless the load has only failed. *)
Show(l) ==
    LET reply == load[l].reply
    IN  /\ load[l].at = "answered"
        /\ load' = [load EXCEPT ![l].at = "shown", ![l].seen = {}, ![l].supplied = {}]
        /\ page' = IF reply = "data" THEN Rendered(l)
                   ELSE [page EXCEPT !.banner = reply, !.hidden = @ \/ reply # "failed"]
        /\ UNCHANGED <<sharedVars, bands, viewer, changes>>

-----------------------------------------------------------------------------
(* The page is opened on a system that is at work. *)
RoomInit ==
    /\ clock = 0
    /\ work \in [Tasks -> [state : {"none", "queued", "running", "retry"}, since : {0}]]
    /\ renders \in [Slots -> {0, GrantTime}]
    /\ supply = [s \in Suppliers |-> [until |-> 0, failing |-> FALSE, filled |-> 0]]
    /\ bands \in {"absent", "rangeless", "ranged"}
    /\ viewer = "nobody"
    /\ load = [l \in Loads |-> Unloaded]
    /\ page = [banner |-> "loading", hidden |-> TRUE, of |-> Unshown]
    /\ changes = 0

RoomNext ==
    \/ \E t \in Tasks : QueueMoves(t)
    \/ \E s \in Slots : RendersMove(s)
    \/ \E s \in Suppliers : SupplyMoves(s)
    \/ ClockTicks
    \/ \E l \in Loads :
          \/ Arrive(l) \/ ReadQueue(l) \/ ReadBacklog(l) \/ ReadRenders(l)
          \/ ReadSuppliers(l) \/ Conclude(l)
          \/ Refresh(l) \/ ChangeUser(l) \/ Show(l)

RoomSpec == RoomInit /\ [][RoomNext]_roomVars

-----------------------------------------------------------------------------
(* Every figure of an answer was so while it was put together, though not all at
   once; the oldest age is short of one that was by no more than that took; and
   there are more retries than there were only when time has passed meanwhile, and
   no more than jobs in line. *)
Answered == {l \in Loads : load[l].at \in {"answered", "shown"} /\ load[l].reply = "data"}

Founded(l) ==
    LET f == load[l].found
        taken == load[l].till - load[l].now
    IN  /\ \A m \in {"depth", "backlog"} : <<m, f[m]>> \in load[l].seen
        /\ \E age \in 0..MaxClock :
               /\ <<"age", age>> \in load[l].seen
               /\ f.age <= age /\ age <= f.age + taken
        /\ \E retries \in 0..f.retries :
               /\ <<"retries", retries>> \in load[l].seen
               /\ retries < f.retries => taken > 0 /\ f.retries <= f.depth
        /\ \A s \in Suppliers :
               <<IF s \in f.cooling THEN "cooling" ELSE "clear", s>> \in load[l].supplied
        /\ \A s \in Slots :
               <<IF s \in f.rendering THEN "leased" ELSE "free", s>> \in load[l].supplied

(* The verdict is that of the worst card, and no better than a warning without the
   thresholds; the banner names an issue when there is one; the parts of the page
   that are concluded anew do not contradict it. *)
Consistent(f) ==
    /\ Verdict(f) = "bad" <=> \E c \in DOMAIN Cards(f) : Cards(f)[c] = "bad"
    /\ Verdict(f) = "healthy" <=>
           /\ f.bands # "absent"
           /\ \A c \in DOMAIN Cards(f) : Cards(f)[c] \in {"healthy", "unknown"}
    /\ Health(f).first = "none" <=> Verdict(f) = "healthy"
    /\ Headline(f) = "healthy" <=> Verdict(f) = "healthy"
    /\ Drain(f) = "waits for renders" \/ f.cooling # {} => Verdict(f) # "healthy"
    /\ SupplyHeadline(f) = "none" <=> Strained(f) = {}
    /\ FlowCards(f).backlog = "bad" <=> Cards(f).backlog = "bad"
    /\ FlowCards(f).backlog = "healthy" => FlowCards(f).queued = "healthy"

(* A banner that gives a verdict stands over the data it was drawn from. *)
BannerIsOfData ==
    /\ page.banner \in {"healthy", "warning", "bad"} =>
           /\ ~page.hidden
           /\ page.banner = Verdict(load[page.of].found)
    /\ ~page.hidden => page.of \in Answered /\ load[page.of].by = "founder"

DashboardTells ==
    /\ \A l \in Answered :
           (load[l].at = "answered" => Founded(l)) /\ Consistent(load[l].found)
    /\ BannerIsOfData
=============================================================================
