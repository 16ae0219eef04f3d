----------------------------- MODULE DeliveryEngine -----------------------------
(***************************************************************************)
(* The operator's delivery engine, and the two programs built on it: the   *)
(* golden path and the researcher.  One run activates a subscription in a  *)
(* state of its own, has its brief made by Loom, falls back on the browser *)
(* capability, and then settles through the one payout adapter the host    *)
(* has: the internal ledger (a chain of calls, each saved, none undone) or *)
(* a signed transfer on chain.  The kernel treasury, the signer and Loom   *)
(* are outside this repository: each call of theirs answers or fails.      *)
(***************************************************************************)
EXTENDS Naturals, Sequences

CONSTANTS Hosts,        \* what may be configured on the host
          MaxEngineRuns

VARIABLES
    host, program,      \* engine, golden or researcher
    step,               \* where the run is
    nth,                \* which run it is
    service,            \* the files the subscription service works on: its own, or the run's
    capture,            \* what the run has got: brief and the references of its delivery
    warrant,            \* of this run: none, ready or executed
    recipient, commitment, proposal,    \* of the kernel: saved by the calls of the chain
    moved,              \* what this run paid: nothing, by ledger, on chain (history)
    known,              \* what the run can tell of its settlement
    research,           \* the analysis, whether it was written, and the file
    told                \* how the run ended and what it claimed

devars == <<host, program, step, nth, service, capture, warrant, recipient, commitment,
            proposal, moved, known, research, told>>

Browser == "browser"
NoCapture == [brief |-> FALSE, word |-> FALSE]
NoResearch == [summary |-> 0, ok |-> FALSE, written |-> FALSE, file |-> 0]
Untold == [exit |-> "none", claim |-> FALSE]

DeInit ==
    /\ host \in Hosts /\ program \in {"engine", "golden", "researcher"}
    /\ step = "idle" /\ nth = 0 /\ service = "own" /\ capture = NoCapture
    /\ warrant = "none" /\ recipient = FALSE /\ commitment = "none" /\ proposal = "none"
    /\ moved = "none" /\ known = {} /\ research = NoResearch /\ told = Untold

---------------------------------------------------------------------------
\* whatever fails ends the run: run_engine restores the service's files on the way out
Fail ==
    /\ step' = "over" /\ service' = "own" /\ told' = [exit |-> "error", claim |-> FALSE]

\* a new run of the program, after the last
Launch ==
    /\ step \in {"idle", "over"} /\ nth < MaxEngineRuns
    /\ nth' = nth + 1 /\ capture' = NoCapture /\ moved' = "none" /\ known' = {}
    /\ commitment' = "none" /\ proposal' = "none" /\ told' = Untold
    /\ warrant' = "none" /\ research' = [NoResearch EXCEPT !.file = research.file]
    /\ step' = IF program = "engine" THEN "enter" ELSE "issue"
    /\ UNCHANGED <<host, program, service, recipient>>

\* bootstrap, the agent and the workspace's warrant
Issue ==
    /\ step = "issue"
    /\ \/ warrant' = "ready" /\ step' = "enter" /\ UNCHANGED <<service, told>>
       \/ Fail /\ UNCHANGED warrant
    /\ UNCHANGED <<host, program, nth, capture, recipient, commitment, proposal, moved, known, research>>

\* the isolated environment, with its payment evidence
Enter ==
    /\ step = "enter" /\ service' = "isolated" /\ step' = "activate"
    /\ UNCHANGED <<host, program, nth, capture, warrant, recipient, commitment, proposal, moved,
                   known, research, told>>

\* runtime_snapshot: the browser capability stands in when none is configured
Capability == IF host.capability # "none" \/ ~host.bin THEN host.capability
              ELSE IF host.browserReady THEN Browser ELSE "none"

\* activation and the delivery run, which knows only what is configured; a worker's
\* result may speak of a settlement of its own
Activate ==
    /\ step = "activate"
    /\ \/ /\ capture' \in {NoCapture} \cup
                (IF host.capability # "none" /\ host.bin /\ host.preflight
                 THEN {[brief |-> b, word |-> w] : b, w \in BOOLEAN} ELSE {})
          /\ step' = "fallback" /\ UNCHANGED <<service, told>>
       \/ Fail /\ UNCHANGED capture
    /\ UNCHANGED <<host, program, nth, warrant, recipient, commitment, proposal, moved, known, research>>

\* _direct_browser_fallback_capture; _host_response_brief makes a text of an error too, so
\* only an execution that says nothing at all has no brief
BrowserFallback ==
    /\ step = "fallback"
    /\ capture' \in IF capture.brief \/ ~host.bin \/ Capability # Browser THEN {capture}
                    ELSE {[brief |-> TRUE, word |-> w] : w \in BOOLEAN} \cup {[brief |-> FALSE, word |-> FALSE]}
    /\ step' = "settle"
    /\ UNCHANGED <<host, program, nth, service, warrant, recipient, commitment, proposal, moved,
                   known, research, told>>

---------------------------------------------------------------------------
\* _preferred_settlement_adapter: the default, or the first by name
AdapterOf(h) ==
    LET byName == SelectSeq(<<"base_usdc_x402", "internal_ledger", "manual_bank_wire">>,
                            LAMBDA a : a \in h.enabled)
    IN IF h.default \in h.enabled THEN h.default
       ELSE IF byName = <<>> THEN "none" ELSE Head(byName)
Adapter == AdapterOf(host)

\* the brief is not asked for: a run without one settles as well
Settle ==
    /\ step = "settle"
    /\ step' = IF ~host.kernel THEN "leave"
               ELSE IF Adapter = "internal_ledger" THEN "recipient"
               ELSE IF Adapter = "base_usdc_x402" /\ host.bin THEN "sign"
               ELSE "leave"
    /\ UNCHANGED <<host, program, nth, service, capture, warrant, recipient, commitment, proposal,
                   moved, known, research, told>>

\* the chain of _attach_internal_ledger_settlement
Chain == <<"recipient", "proposed", "accepted", "draft", "submitted", "reviewed", "approved",
           "dispute_window", "executed", "refs">>
ChainAt == CHOOSE i \in DOMAIN Chain : Chain[i] = step
RecipientDone == recipient \/ step = "recipient"
CommitmentDone == IF step \in {"proposed", "accepted"} THEN step ELSE commitment
ProposalDone == IF ChainAt > 3 THEN step ELSE proposal
MovedDone == IF step = "executed" THEN "ledger" ELSE moved
\* a call that fails may have broken off after any of its writes, the debit as well
Advance ==
    /\ step \in {Chain[i] : i \in 1 .. 9}
    /\ \/ /\ step' = Chain[ChainAt + 1] /\ recipient' = RecipientDone
          /\ commitment' = CommitmentDone /\ proposal' = ProposalDone /\ moved' = MovedDone
          /\ UNCHANGED <<service, told>>
       \/ /\ Fail /\ recipient' \in {recipient, RecipientDone}
          /\ commitment' \in {commitment, CommitmentDone} /\ proposal' \in {proposal, ProposalDone}
          /\ moved' \in {moved, MovedDone}
    /\ UNCHANGED <<host, program, nth, capture, warrant, known, research>>

\* _broadcast_x402_settlement and _attach_x402_settlement: no key, or a signer that raises
\* (maybe after the broadcast), leaves nothing to attach; any other answer is attached, ok or
\* not: with a hash, or only signed (broadcast or not), or with neither
Sign ==
    /\ step = "sign"
    /\ \/ step' = "leave" /\ UNCHANGED known
          /\ moved' \in {"none"} \cup (IF host.key THEN {"chain"} ELSE {})
       \/ /\ host.key /\ step' = "refs"
          /\ \/ moved' = "chain" /\ known' \in {{"tx_hash"}, {"tx_hash", "signed"}}
             \/ moved' \in {"none", "chain"} /\ known' = {"signed"}
             \/ moved' = "none" /\ known' = {}
    /\ UNCHANGED <<host, program, nth, service, capture, warrant, recipient, commitment, proposal,
                   research, told>>

\* Mutant: the references are kept only with a brief that was delivered
Attached_briefed == IF moved = "ledger" /\ capture.brief THEN {"tx_ref"} ELSE known
\* the references of the settlement are merged into those of the delivery
Attached == IF moved = "ledger" THEN {"tx_ref"} ELSE known

\* _finalize_warrant_execution, for the one caller that hands its warrant on; the mark fails
\* when the warrant is not in the store the engine looks in
WarrantGiven == program = "golden"
Attach ==
    /\ step = "refs"
    /\ known' = Attached
    /\ \/ ~WarrantGiven /\ step' = "leave" /\ UNCHANGED <<warrant, service, told>>
       \/ WarrantGiven /\ host.sameStore /\ warrant = "ready" /\ warrant' = "executed"
          /\ step' = "leave" /\ UNCHANGED <<service, told>>
       \/ WarrantGiven /\ ~(host.sameStore /\ warrant = "ready") /\ Fail /\ UNCHANGED warrant
    /\ UNCHANGED <<host, program, nth, capture, recipient, commitment, proposal, moved, research>>

\* the environment's finally clause
Leave ==
    /\ step = "leave" /\ service' = "own"
    /\ step' = IF program = "researcher" THEN "analyse" ELSE "report"
    /\ UNCHANGED <<host, program, nth, capture, warrant, recipient, commitment, proposal, moved,
                   known, research, told>>

---------------------------------------------------------------------------
\* _maybe_analyze_with_loom: an execution that failed may leave a text all the same
Analyse ==
    /\ step = "analyse" /\ step' = "persist"
    /\ \E ok, text \in BOOLEAN :
         /\ ok => text
         /\ host.bin \/ (~ok /\ ~text)
         /\ research' = [research EXCEPT !.ok = ok, !.summary = IF text THEN nth ELSE 0]
    /\ UNCHANGED <<host, program, nth, service, capture, warrant, recipient, commitment, proposal,
                   moved, known, told>>

\* _maybe_persist_summary_with_loom: the proof of the write is that the file is there
Persist ==
    /\ step = "persist" /\ step' = "report"
    /\ \/ research.summary = 0 /\ UNCHANGED research
       \/ /\ research.summary > 0
          /\ \E ok, wrote \in BOOLEAN :
               LET file == IF wrote THEN research.summary ELSE research.file
               IN research' = [research EXCEPT !.file = file, !.written = ok /\ file > 0]
    /\ UNCHANGED <<host, program, nth, service, capture, warrant, recipient, commitment, proposal,
                   moved, known, told>>

\* delivery_settlement_artifact finds any reference, the worker's included;
\* delivery_blockchain_artifact and the researcher ask for the hash of a transfer
ClaimOf == IF program = "researcher" THEN "tx_hash" \in known ELSE known # {} \/ capture.word
Report ==
    /\ step = "report" /\ step' = "over"
    /\ told' = [claim |-> ClaimOf,
                exit |-> IF program = "engine" /\ ~capture.brief THEN "empty" ELSE "ok"]
    /\ UNCHANGED <<host, program, nth, service, capture, warrant, recipient, commitment, proposal,
                   moved, known, research>>

DeNext == \/ Launch \/ Issue \/ Enter \/ Activate \/ BrowserFallback \/ Settle \/ Advance
          \/ Sign \/ Attach \/ Leave \/ Analyse \/ Persist \/ Report

DeSpec == DeInit /\ [][DeNext]_devars

---------------------------------------------------------------------------
\* What a run paid it tells: a payment by the ledger is claimed in the report of the engine
\* or the golden path, or the run ends in an error; it never ends well and keeps silent.  A
\* payment on chain is claimed if the signer gave any word of it, unless the warrant could
\* then not be marked.  What a report claims was paid or at least signed, or is the word of
\* the worker.  A warrant is spent on a payment by the ledger that is on record, or on an
\* answer of the signer, were it one without a reference.
PaymentIsTold ==
    /\ step = "over" /\ program # "researcher" =>
         /\ moved = "ledger" => told.claim \/ told.exit = "error"
         /\ known # {} => told.claim \/ (told.exit = "error" /\ program = "golden" /\ ~host.sameStore)
    /\ told.claim => moved # "none" \/ "signed" \in known \/ capture.word
    /\ warrant = "executed" =>
         IF Adapter = "internal_ledger" THEN moved = "ledger" /\ "tx_ref" \in known ELSE host.key
=============================================================================
