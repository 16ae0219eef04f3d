------------------------------ MODULE MCInstitution ------------------------------
(* Four parts of an institution's workspace for TLC, one behaviour of each at a *)
(* time: the authority queue, the court, the settlement journal of the paid     *)
(* tools, and the alerts.                                                       *)
EXTENDS MCAuthority, Court, SettlementJournal, Alerting

VARIABLE part

\* the .cfg gives the threads of all parts one set of names, and what they are about another
MCSymmetry == Permutations(Threads) \cup Permutations(Accused)

MCInit ==
    /\ part \in {"authority", "court", "tools", "alerts"}
    /\ Init /\ CtInit /\ SjInit /\ AlInit
    /\ part # "authority" => legacy = Absent /\ queue = Absent
MCNext ==
    /\ UNCHANGED part
    /\ \/ part = "authority" /\ Next /\ UNCHANGED <<ctvars, mcpvars, alvars>>
       \/ part = "court" /\ CtNext /\ UNCHANGED <<vars, mcpvars, alvars>>
       \/ part = "tools" /\ SjNext /\ UNCHANGED <<vars, ctvars, alvars>>
       \/ part = "alerts" /\ AlNext /\ UNCHANGED <<vars, ctvars, mcpvars>>
MCSpec == MCInit /\ [][MCNext]_<<part, vars, ctvars, mcpvars, alvars>>
=============================================================================
