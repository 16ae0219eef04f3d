------------------------------ MODULE MCNightShift ------------------------------
(* The gateway's deliveries and the night shift for TLC.                       *)
EXTENDS NightShift, TLC

MCLasting == {Brief(v) : v \in 1 .. MaxBriefs}
MCCasts == {{"poll", "beat"}, {"web", "other"}, {"beat", "other"}, {"cron"}}
\* where others queue as well, two records are more than a listing holds
MCLimit == [c \in MCCasts |-> IF "other" \in c THEN 1 ELSE 2]
=============================================================================
