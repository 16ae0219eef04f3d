---------------------------- MODULE MCOwnerAccounts ----------------------------
(* OwnerAccounts for TLC: threads are interchangeable.  A behaviour of MCSpec   *)
(* is one of threads at the same door, whose lock orders them, or of requests   *)
(* through both doors and payouts, one at a time.                               *)
EXTENDS OwnerAccounts, TLC

VARIABLE mode
Symmetry == Permutations(Threads)

MCInit == Init /\ mode \in {"cli", "service", "one at a time"}
MCNext == Next /\ UNCHANGED mode /\ Mode(mode)'
MCSpec == MCInit /\ [][MCNext]_<<vars, mode>>

\* any interleaving
TwoLocksSpec == Init /\ mode = "any" /\ [][Next /\ UNCHANGED mode]_<<vars, mode>>
=============================================================================
