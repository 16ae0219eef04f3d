---------------------------- MODULE MCSubscriptions ----------------------------
(* Subscriptions for TLC, and in behaviours of their own the delivery engine,   *)
(* which activates one in a file apart: threads are interchangeable.            *)
EXTENDS Subscriptions, DeliveryEngine, TLC

VARIABLE part
Symmetry == Permutations(Threads)

\* hosts: without and with the runtime and the kernel, each adapter, and the warrant's store
Host == [capability |-> "other", bin |-> TRUE, browserReady |-> TRUE, preflight |-> TRUE,
         kernel |-> TRUE, default |-> "none", enabled |-> {"internal_ledger"}, key |-> TRUE,
         sameStore |-> TRUE]
MCHosts ==
    {[Host EXCEPT !.capability = c, !.preflight = p] : c \in {"none", Browser, "other"}, p \in BOOLEAN}
    \cup {[Host EXCEPT !.bin = b, !.kernel = k, !.enabled = e, !.key = y] :
            b, k, y \in BOOLEAN, e \in {{}, {"base_usdc_x402", "internal_ledger"}}}
    \cup {[Host EXCEPT !.default = "internal_ledger", !.sameStore = FALSE,
                       !.enabled = {"base_usdc_x402", "internal_ledger"}],
          [Host EXCEPT !.capability = "none", !.browserReady = FALSE, !.enabled = {"manual_bank_wire"}]}

MCInit == Init /\ DeInit /\ part \in {"service", "engine"}
          /\ (part = "service" => host = Host /\ program = "engine")
MCNext ==
    \/ part = "service" /\ Next /\ UNCHANGED <<part, devars>>
    \/ part = "engine" /\ DeNext /\ UNCHANGED <<part, vars>>
MCSpec == MCInit /\ [][MCNext]_<<part, vars, devars>>
=============================================================================
