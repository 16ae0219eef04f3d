----------------------------- MODULE MCTreasury -----------------------------
(* Small instances of Treasury: ann may propose, bea may review, cal is    *)
(* the owner, and bea is also paid.                                         *)
EXTENDS Treasury, TLC
CONSTANTS t1, t2, p1, w1, w2
MCMembers == {"ann", "bea", "cal"}
MCAdmins == {"bea", "cal"}
MCOwners == {"cal"}
Symmetry == Permutations(Workers) \cup Permutations(Warrants)
=============================================================================
