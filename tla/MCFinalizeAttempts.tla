------------------------ MODULE MCFinalizeAttempts ------------------------
(* Small instances of the finalize attempts for TLC: one account. *)
EXTENDS FinalizeProperties, TLC

CONSTANT u1

MCUsers == {u1}
MCUserOf == [x \in Sessions \cup Attempts |-> u1]

(* Keys and worker incarnations are interchangeable. *)
Symmetric == Permutations(Attempts) \cup Permutations(Runners) \cup Permutations(Clients)

(* Where a summary is read, nothing expires and the plan's time stays: its
   reader, the admissions and the worker meet. *)
MeetsSummary ==
    /\ UNCHANGED reaping
    /\ ~Tick
    /\ \A u \in Users : usage'[u].included = Included
=============================================================================
