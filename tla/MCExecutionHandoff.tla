------------------------- MODULE MCExecutionHandoff -------------------------
(* ExecutionHandoff for TLC.  In one behaviour of MCSpec one of the warrants  *)
(* is sent: one with a commitment or one without.  Where requests may time    *)
(* out, a host may go down or an operator of the receiver review; where none  *)
(* does, operators review more, and either each host serves one request at a  *)
(* time, or up to three handlers crowd around one execution request.          *)
EXTENDS ExecutionHandoff

VARIABLES sent, crowd

Sending   == {t \in Senders : ~SIs(t, "idle")}
Receiving == {t \in Receivers : ~RIs(t, "idle")}
MCNarrow ==
    /\ \A t \in Senders : sth[t].w \in {None, sent}
    /\ \A w \in Warrants \ {sent} : warrant[w].review = "auto_issued"
    /\ lossy => reviews + crashes <= 1 /\ home = 0
    /\ ~lossy => crashes = 0
    /\ IF crowd
       THEN /\ ~lossy /\ home = 0 /\ sent \in Linked
            /\ Cardinality(Sending) + Cardinality(Receiving) <= 3
            /\ (\E m \in net : m.type = "execution_request") =>
                   \A t \in Sending : ~SIs(t, "validated")
       ELSE /\ Sending \subseteq {CHOOSE t \in Senders : TRUE}
            /\ lossy \/ Cardinality(Receiving) <= 1
MCInit == Init /\ sent \in Warrants /\ crowd \in BOOLEAN /\ MCNarrow
MCNext == Next /\ UNCHANGED <<sent, crowd>> /\ MCNarrow'
MCSpec == MCInit /\ [][MCNext]_<<vars, sent, crowd>> /\ Fairness
=============================================================================
