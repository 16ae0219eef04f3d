------------------------------- MODULE MCGateway -------------------------------
(* Four parts of the gateway for TLC, one behaviour of each at a time: a request *)
(* through the team route, the scoring of deliveries, the review of trust        *)
(* evidence, and the memory.                                                     *)
EXTENDS TeamDelivery, SessionScoring, TrustReview, SessionMemory, TLC

VARIABLE part
gwvars == <<part, tdvars, ssvars, trvars, smvars>>

\* requests: one for every way to a plan, and skills of every kind
Base0 == [lane |-> "none", skill |-> "none", writer |-> FALSE, short |-> FALSE, action |-> FALSE,
          top |-> 0, gap |-> 0, generic |-> FALSE, tokens |-> 4, proven |-> TRUE]
MCRequests ==
    {[Base0 EXCEPT !.lane = l] : l \in {"internal", "operator", "positioning"}}
    \cup {[Base0 EXCEPT !.skill = s, !.writer = w, !.action = TRUE, !.top = 20] : w \in BOOLEAN,
             s \in {"questionnaire", "customer", "competitor", "web", "meeting", "protocol"}}
    \cup {[Base0 EXCEPT !.skill = s, !.writer = TRUE, !.short = h, !.proven = FALSE] : h \in BOOLEAN,
             s \in {"none", "other", "competitor", "web", "mail"}}
    \cup {[Base0 EXCEPT !.skill = "mail", !.writer = TRUE, !.short = TRUE, !.action = TRUE, !.top = 8]}
MCLoads == {Load(<<>>, <<>>), Load(<<"delivered">>, <<2000>>),
            Load(<<"delivered", "failed", "queued", "queued">>, <<8000, 16000>>)}
MCRestrictions == {{}, {"QUILL"}, {"SENTINEL"}}

\* deliveries: a bad one, the same again, and a good one that recalls and writes
Quill == [agent |-> "quill", kind |-> "write", status |-> "ok", usable |-> TRUE, fit |-> 40, shape |-> TRUE,
          final |-> FALSE, best |-> FALSE, pass |-> FALSE, fail |-> FALSE, drift |-> FALSE,
          blocked |-> FALSE, broke |-> FALSE, cites |-> 0]
Poor == [print |-> "p1", session |-> "s", eligible |-> TRUE, research |-> FALSE, quality |-> "failure", source |-> "manager_response",
         lenient |-> FALSE, contributors |-> {[Quill EXCEPT !.drift = TRUE, !.fit = 10, !.shape = FALSE]},
         recalled |-> {}, evidence |-> {}]
Good == [Poor EXCEPT !.print = "p2", !.quality = "success", !.source = "worker_artifact",
         !.contributors = {[Quill EXCEPT !.final = TRUE]},
         !.recalled = {[agent |-> "quill", kind |-> "output", fit |-> 40, same |-> TRUE, worth |-> 4,
                         status |-> "success"]},
         !.evidence = {[agent |-> "quill", kind |-> "pack", status |-> "approved"]}]
MCDeliveries == <<"d1", "d2", "d3">>
MCDeliveryOf == [d \in {"d1", "d2", "d3"} |-> IF d = "d3" THEN Good ELSE Poor]

\* one critical question a brief answers, and a minor one the pack of the first run answers
MCPackOf == [q \in Questionnaires |-> "pack"]
MCRelevance == [x \in Questions \X {"brief", "pack"} |->
                  IF x[1] \in Critical THEN (IF x[2] = "brief" THEN 8 ELSE 14)
                  ELSE (IF x[2] = "pack" THEN 8 ELSE -6)]
\* with an earlier delivery three can say the same, one more than the support keeps
MCEarlier == {<<>>, <<"o1">>}
MCSaidBy == [o \in Outputs |-> IF o = "o3" THEN "b" ELSE "a"]
\* the .cfg gives threads, scorers and callers one set of names
Symmetry == Permutations(Threads)

Init ==
    /\ part \in {"team", "scoring", "trust", "memory"}
    /\ TdInit /\ SsInit /\ TrInit /\ SmInit
    /\ part # "memory" => history = <<>>
    /\ IF part # "team"
       THEN req = [Base0 EXCEPT !.lane = "internal"] /\ load = Load(<<>>, <<>>) /\ restricted = {}
       ELSE \/ restricted = {} /\ req.short
            \/ /\ load = Load(<<"delivered">>, <<2000>>)
               /\ restricted # {} => req.writer /\ req.skill # "none"
Next ==
    \/ part = "team" /\ TdNext /\ UNCHANGED <<part, ssvars, trvars, smvars>>
    \/ part = "scoring" /\ SsNext /\ UNCHANGED <<part, tdvars, trvars, smvars>>
    \/ part = "trust" /\ TrNext /\ UNCHANGED <<part, tdvars, ssvars, smvars>>
    \/ part = "memory" /\ SmNext /\ UNCHANGED <<part, tdvars, ssvars, trvars>>
Spec == Init /\ [][Next]_gwvars
=============================================================================
