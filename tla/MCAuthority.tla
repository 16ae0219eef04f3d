------------------------------ MODULE MCAuthority ------------------------------
(* Authority for TLC: legacy files without and with a delegation and an       *)
(* engaged kill switch in them.                                               *)
EXTENDS Authority, TLC

CONSTANTS d1, a1

Old(kill) == [Empty EXCEPT !.delegations[d1] = [to |-> a1, until |-> 2], !.kill = kill]
MCLegacies == {Absent, Empty, Old(FALSE), Old(TRUE)}
MCNoLegacy == {Absent}
Symmetry == Permutations(Threads)
=============================================================================
