----------------------------- MODULE MCServices -----------------------------
(***************************************************************************)
(* Small instances, for TLC, of five independent parts beside the queue of *)
(* finalize jobs: the voice syncs of an account, its plan, its script      *)
(* counter, admission to providers and the search for clips.  A behaviour  *)
(* is one of one part, chosen at the start, with the others at rest.       *)
(***************************************************************************)
EXTENDS StorySync, Membership, PlanGuards, ProviderLease, ClipSearch, TLC

VARIABLE part

allVars == <<syncVars, memberVars, capVars, leaseVars, searchVars>>

SyncAlone == SyncNext /\ UNCHANGED <<memberVars, capVars, leaseVars, searchVars>>
MemberAlone == MemberNext /\ UNCHANGED <<syncVars, capVars, leaseVars, searchVars>>
CapAlone == CapNext /\ UNCHANGED <<syncVars, memberVars, leaseVars, searchVars>>
LeaseAlone == LeaseNext /\ UNCHANGED <<syncVars, memberVars, capVars, searchVars>>
SearchAlone == SearchNext /\ UNCHANGED <<syncVars, memberVars, capVars, leaseVars>>

ServicesInit ==
    /\ part \in {"sync", "report", "plan", "scripts", "providers", "search"}
    /\ SyncInit
    /\ MemberInit
    /\ CapInit
    /\ LeaseInit
    /\ SearchInit
    /\ part = "plan" \/ user.usage = Nothing

(* Syncs meet editors of the story, or renders and a summary of the account.
   There all syncs ask for the same, and what the summary brings back of earlier
   periods stays within twice the plan. *)
MeetsReport ==
    /\ UNCHANGED opened
    /\ \A c \in Requests : request'[c].pc = "planned" => request'[c].print.mode = "stale"
    /\ ledger'.used <= 2 * Included

ServicesNext ==
    /\ \/ part = "sync" /\ SyncAlone /\ UNCHANGED <<rendering, report>>
       \/ part = "report" /\ SyncAlone /\ MeetsReport
       \/ part = "plan" /\ MemberAlone
       \/ part = "scripts" /\ CapAlone
       \/ part = "providers" /\ LeaseAlone
       \/ part = "search" /\ SearchAlone
    /\ UNCHANGED part

ServicesSpec == ServicesInit /\ [][ServicesNext]_<<part, allVars>>

(* One slot and a gap for speech, two slots and none for the others *)
MCSlotLimit == [k \in Providers |-> IF k = Tts THEN 1 ELSE 2]
MCLocalLimit == [k \in Providers |-> 1]
MCGap == [k \in Providers |-> IF k = Tts THEN 2 ELSE 0]

(* What has no name in a formula is interchangeable.  The parts share these
   names: keys are also executions and searches, requests also processes. *)
ServicesSymmetric ==
    Permutations(SyncKeys) \cup Permutations(Texts) \cup Permutations(Requests)
=============================================================================
