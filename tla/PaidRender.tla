---------------------------- MODULE PaidRender ----------------------------
(***************************************************************************)
(* What an account is promised about paid renders: time is reserved for a *)
(* job before it runs, at most one job of a session holds time, and each  *)
(* job gives its time back exactly once, by a charge or by a release.  The *)
(* job stays as it ended.  The promise has one hole, which is part of it:  *)
(* a summary of the account may put back a ledger it has read before, and  *)
(* what was reserved, charged or released meanwhile is undone.             *)
(***************************************************************************)
EXTENDS Integers

CONSTANTS Users, Sessions, Attempts, UserOf, Estimates, Charges, Included, Plans, Readers, None

VARIABLES job, ledger, read

paidVars == <<job, ledger, read>>

Holding(a) == job[a] # None /\ job[a].phase = "held"

(* More is given back than the ledger knows of only after a summary has put an
   older one back. *)
Without(reserved, ms) == IF reserved < ms THEN 0 ELSE reserved - ms

Init ==
    /\ job = [a \in Attempts |-> None]
    /\ ledger = [u \in Users |-> [included |-> Included, used |-> 0, reserved |-> 0]]
    /\ read = [q \in Readers |-> None]

Reserve(a, s, ms) ==
    LET l == ledger[UserOf[a]] IN
    /\ job[a] = None
    /\ UserOf[a] = UserOf[s]
    /\ \A b \in Attempts : Holding(b) => job[b].session # s
    /\ l.used + l.reserved + ms <= l.included
    /\ job' = [job EXCEPT ![a] =
                  [phase |-> "held", session |-> s, held |-> ms, paid |-> 0]]
    /\ ledger' = [ledger EXCEPT ![UserOf[a]].reserved = @ + ms]
    /\ UNCHANGED read

Charge(a, ms) ==
    /\ Holding(a)
    /\ 0 < ms /\ ms <= job[a].held
    /\ job' = [job EXCEPT ![a].phase = "charged", ![a].paid = ms]
    /\ ledger' = [ledger EXCEPT ![UserOf[a]].used = @ + ms,
                                ![UserOf[a]].reserved = Without(@, job[a].held)]
    /\ UNCHANGED read

Release(a) ==
    /\ Holding(a)
    /\ job' = [job EXCEPT ![a].phase = "released"]
    /\ ledger' = [ledger EXCEPT ![UserOf[a]].reserved = Without(@, job[a].held)]
    /\ UNCHANGED read

OpenPeriod(u, included) ==
    /\ \E used \in {0, ledger[u].used} :
           ledger' = [ledger EXCEPT ![u].used = used, ![u].included = included]
    /\ UNCHANGED <<job, read>>

Read(q, u) ==
    /\ read[q] = None
    /\ read' = [read EXCEPT ![q] = [user |-> u, ledger |-> ledger[u]]]
    /\ UNCHANGED <<job, ledger>>

PutBack(q) ==
    /\ read[q] # None
    /\ ledger' = [ledger EXCEPT ![read[q].user] = read[q].ledger]
    /\ read' = [read EXCEPT ![q] = None]
    /\ UNCHANGED job

Next ==
    \/ \E a \in Attempts : \/ \E s \in Sessions, ms \in Estimates : Reserve(a, s, ms)
                           \/ \E ms \in Charges : Charge(a, ms)
                           \/ Release(a)
    \/ \E u \in Users, included \in Plans : OpenPeriod(u, included)
    \/ \E q \in Readers : (\E u \in Users : Read(q, u)) \/ PutBack(q)

Spec == Init /\ [][Next]_paidVars
=============================================================================
