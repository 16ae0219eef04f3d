---------------------------- MODULE MCCommitments ----------------------------
(* Commitments for TLC.  A behaviour of MCSpec is one of two threads that save  *)
(* over each other, or one of more requests and notices, served one after the   *)
(* other by one thread, which may break off.  In the second kind one warrant    *)
(* does the work, and proposals may name another; in the first both take part,  *)
(* and the decisions are those that set a state no other decision sets.         *)
(* Threads and warrants are interchangeable: the first to act is Only, and the  *)
(* first case is not about Other.                                               *)
EXTENDS Commitments

CONSTANT Other      \* one of the warrants
VARIABLE serial

Only == CHOOSE t \in Threads : TRUE
Proposes(t) == th[t].todo = <<"propose">>
MCNarrow ==
    IF serial
    THEN /\ requests + notices <= 4 /\ opened <= 1
         /\ \A t \in Threads \ {Only} : ~Busy(t)
         /\ \A t \in Threads : th[t].w = Other => Proposes(t)
    ELSE /\ requests <= 2 /\ notices <= 1 /\ breaks = 0
         /\ requests + notices + opened <= 4
         /\ requests + notices = 1 => \A t \in Threads \ {Only} : ~Busy(t)
         /\ \A t \in Threads : /\ Proposes(t) => th[t].w = None
                               /\ th[t].by = "peer" => th[t].w # Other
                               /\ th[t].d \notin {"reject", "revoked"}
         /\ cases[1].w # Other
MCInit == Init /\ serial \in BOOLEAN
MCNext == Next /\ UNCHANGED serial /\ MCNarrow'
MCSpec == MCInit /\ [][MCNext]_<<vars, serial>> /\ Fairness
=============================================================================
