------------------------------ MODULE TrustReview ------------------------------
(***************************************************************************)
(* Evidence and the questionnaires that rest on it.  A questionnaire is    *)
(* answered from the evidence on file; a critical answer that is not       *)
(* approved waits in a queue, and the pack ships when none waits.          *)
(* Operators review queued answers or evidence; what was delivered becomes *)
(* evidence in turn.  Evidence and questionnaires are two files that every *)
(* thread of the gateway reads whole and writes whole, with no lock; a     *)
(* read that meets a write under way, or what a stop left of one, finds    *)
(* nothing.                                                                *)
(*   evidence   [e -> status, old (past its freshness)]                    *)
(*   assurance  packs: [q -> answers, gate]   queue: [<<q, question>> ->   *)
(*              status, state, required]                                   *)
(***************************************************************************)
EXTENDS Integers, FiniteSets
LOCAL INSTANCE FiniteSetsExt

CONSTANTS
    Threads,
    Questionnaires, Questions,
    Critical,       \* the questions that may not ship unapproved
    Briefs,         \* evidence that watch requests write
    PackOf,         \* the evidence the answered questionnaire becomes
    Relevance,      \* of evidence to a question; topics are shared when positive
    MaxRequests, MaxTrustCrashes,
    MaxDisturbed    \* requests accepted in all once threads overlapped or a file was lost

Evidence == Briefs \cup {PackOf[q] : q \in Questionnaires}
Items == Questionnaires \X Questions
Decisions == {"approve", "stale", "revoke", "unresolved"}

ASSUME TrustAssumption ==
    /\ IsFiniteSet(Evidence) /\ Critical \subseteq Questions
    /\ Relevance \in [Questions \X Evidence -> Int]

OnFile(ev) == {e \in Evidence : ev[e].status # "none"}
NoEntry == [status |-> "none", old |-> FALSE]
NoEvidence == [e \in Evidence |-> NoEntry]
NoPack == [answers |-> <<>>, gate |-> "none"]
NoItem == [status |-> "none", state |-> "none", required |-> FALSE]
NoAssurance == [packs |-> [q \in Questionnaires |-> NoPack], queue |-> [i \in Items |-> NoItem]]
Calm == [pc |-> "idle", job |-> "none", q |-> "none", e |-> "none", item |-> <<"none", "none">>,
         decision |-> "none", ev |-> NoEvidence, as |-> NoAssurance]

VARIABLES
    evidence, assurance, thread,
    approvedOnce,   \* evidence that was ever on file as approved (history)
    word,           \* the decision that last reached an item since its questionnaire was built (history)
    overlap,        \* two threads held one file, or a stop left one empty (history)
    requests, trustCrashes

trvars == <<evidence, assurance, thread, approvedOnce, word, overlap, requests, trustCrashes>>

TrInit ==
    /\ evidence \in {NoEvidence,       \* a first start, or briefs approved before this one
                     [e \in Evidence |-> IF e \in Briefs THEN [NoEntry EXCEPT !.status = "approved"]
                                        ELSE NoEntry]}
    /\ approvedOnce = OnFile(evidence)
    /\ assurance = NoAssurance /\ thread = [t \in Threads |-> Calm]
    /\ word = [i \in Items |-> "none"]
    /\ overlap = FALSE /\ requests = 0 /\ trustCrashes = 0

---------------------------------------------------------------------------
(***************************************************************************)
(* Evidence                                                                *)
(***************************************************************************)
\* _trust_evidence_effective_status
Effective(entry) ==
    IF entry.status \notin {"revoked", "none"} /\ entry.old THEN "stale" ELSE entry.status

StatusPoints(status) ==
    CASE status = "approved" -> 18 [] status = "draft" -> 6
      [] status = "stale" -> -4 [] status = "revoked" -> -100
\* _trust_evidence_entry_score
Fit(ev, question, e) == Relevance[<<question, e>>] + StatusPoints(Effective(ev[e]))
BestFor(ev, question) ==
    CHOOSE e \in OnFile(ev) : \A f \in OnFile(ev) : Fit(ev, question, e) >= Fit(ev, question, f)

\* _questionnaire_support_snapshot
AnswerState(ev, question) ==
    LET e == BestFor(ev, question)
        status == Effective(ev[e])
    IN IF OnFile(ev) = {} \/ Fit(ev, question, e) < 12 THEN "open"
       ELSE IF Relevance[<<question, e>>] <= 0 THEN "draft"
       ELSE IF status \in {"revoked", "stale"} THEN status
       ELSE IF status = "approved" /\ Fit(ev, question, e) >= 22 THEN "approved" ELSE "draft"
Snapshot(ev, question) ==
    LET state == AnswerState(ev, question)
    IN [state |-> state, key |-> IF OnFile(ev) = {} THEN "none" ELSE BestFor(ev, question),
        required |-> question \in Critical /\ state \in {"draft", "open", "stale", "revoked"}]

\* Mutant: only what waits for approval holds the pack
Rollup_pending(answers) ==
    IF \E n \in Critical : answers[n].required /\ answers[n].state \in {"draft", "open"}
    THEN "pending_approval" ELSE "ready_for_final_delivery"
\* _rollup_trust_questionnaire
Rollup(answers) ==
    IF \E n \in Critical : answers[n].state = "revoked" THEN "blocked_revoked"
    ELSE IF \E n \in Critical : answers[n].required \/ answers[n].state = "stale" THEN "pending_approval"
    ELSE "ready_for_final_delivery"

\* _sync_trust_approval_queue
Synced(queue, q, answers) ==
    [i \in Items |-> IF i[1] # q THEN queue[i]
        ELSE [queue[i] EXCEPT !.state = answers[i[2]].state, !.required = answers[i[2]].required,
                              !.status = IF answers[i[2]].required THEN "pending"
                                         ELSE IF @ = "none" THEN "cleared" ELSE @]]
\* Mutant: the gate of a questionnaire that is on file is left alone
WithAnswers_unrolled(as, q, answers) ==
    [as EXCEPT !.packs[q] = [answers |-> answers, gate |-> IF @.gate = "none" THEN Rollup(answers) ELSE @.gate],
               !.queue = Synced(as.queue, q, answers)]
WithAnswers(as, q, answers) ==
    [as EXCEPT !.packs[q] = [answers |-> answers, gate |-> Rollup(answers)],
               !.queue = Synced(as.queue, q, answers)]

---------------------------------------------------------------------------
(***************************************************************************)
(* The two files                                                           *)
(***************************************************************************)
HoldsEvidence(t) == thread[t].pc \in {"packet_save", "remember_save", "mark_save", "review_save"}
HoldsAssurance(t) == thread[t].pc \in {"build_save", "review_read", "review_save", "queue_save"}
Others(t) == Threads \ {t}

\* a write_text of one of these threads may have emptied the file and not filled it again
EvidenceNow(writers) ==
    {evidence} \cup (IF \E u \in writers : HoldsEvidence(u) THEN {NoEvidence} ELSE {})
AssuranceNow(writers) ==
    {assurance} \cup
    (IF \E u \in writers : thread[u].pc \in {"build_save", "queue_save"} THEN {NoAssurance} ELSE {})
EvidenceRead(t) == EvidenceNow(Others(t))
AssuranceRead(t) == AssuranceNow(Others(t))

Taken(t, holds(_)) == overlap' = (overlap \/ \E u \in Others(t) : holds(u))
SaveEvidence(ev) ==
    /\ evidence' = ev
    /\ approvedOnce' = approvedOnce \cup {e \in Evidence : ev[e].status = "approved"}
Become(t, r) == thread' = [thread EXCEPT ![t] = r]
Goto(t, pc) == thread' = [thread EXCEPT ![t].pc = pc]

---------------------------------------------------------------------------
(***************************************************************************)
(* A request: the packet of evidence, the questionnaire, the delivery      *)
(***************************************************************************)
Accept ==
    /\ requests < (IF overlap THEN MaxDisturbed ELSE MaxRequests)
    /\ requests' = requests + 1
AskQuestions(t, q) ==
    /\ thread[t].pc = "idle" /\ Accept
    /\ Become(t, [Calm EXCEPT !.pc = "packet", !.job = "answers", !.q = q, !.e = PackOf[q]])
    /\ UNCHANGED <<evidence, assurance, approvedOnce, word, overlap, trustCrashes>>
AskWatch(t, e) ==
    /\ thread[t].pc = "idle" /\ Accept
    /\ Become(t, [Calm EXCEPT !.pc = "packet", !.job = "brief", !.e = e])
    /\ UNCHANGED <<evidence, assurance, approvedOnce, word, overlap, trustCrashes>>

\* _build_trust_evidence_packet: it only adds the packet to the file, and saves all of it
Packet(t) ==
    /\ thread[t].pc = "packet"
    /\ \E ev \in EvidenceRead(t) :
         thread' = [thread EXCEPT ![t].ev = ev, ![t].pc =
                       IF OnFile(ev) # {} THEN "packet_save"
                       ELSE IF thread[t].job = "answers" THEN "support" ELSE "deliver"]
    /\ Taken(t, HoldsEvidence)
    /\ UNCHANGED <<evidence, assurance, approvedOnce, word, requests, trustCrashes>>
PacketSave(t) ==
    /\ thread[t].pc = "packet_save" /\ SaveEvidence(thread[t].ev)
    /\ thread' = [thread EXCEPT ![t].pc = IF thread[t].job = "answers" THEN "support" ELSE "deliver",
                                ![t].ev = NoEvidence]
    /\ UNCHANGED <<assurance, word, overlap, requests, trustCrashes>>

\* _build_questionnaire_state
ReadSupport(t) ==
    /\ thread[t].pc = "support"
    /\ \E ev \in EvidenceRead(t) : thread' = [thread EXCEPT ![t].ev = ev, ![t].pc = "build"]
    /\ UNCHANGED <<evidence, assurance, approvedOnce, word, overlap, requests, trustCrashes>>
Build(t) ==
    /\ thread[t].pc = "build"
    /\ \E as \in AssuranceRead(t) :
         thread' = [thread EXCEPT ![t].pc = "build_save",
                      ![t].as = WithAnswers(as, thread[t].q,
                                  [n \in Questions |-> Snapshot(thread[t].ev, n)])]
    /\ Taken(t, HoldsAssurance)
    /\ UNCHANGED <<evidence, assurance, approvedOnce, word, requests, trustCrashes>>
BuildSave(t) ==
    /\ thread[t].pc = "build_save" /\ assurance' = thread[t].as
    /\ word' = [i \in Items |-> IF i[1] = thread[t].q THEN "none" ELSE word[i]]
    /\ thread' = [thread EXCEPT ![t] = [Calm EXCEPT !.pc = "deliver", !.job = "answers", !.e = thread[t].e,
                                    !.decision = thread[t].as.packs[thread[t].q].gate]]
    /\ UNCHANGED <<evidence, approvedOnce, overlap, requests, trustCrashes>>

\* _delivery_trust_evidence_entry_from_event: a pack is approved evidence if its gate was open
Verdict(t, quality) ==
    IF quality = "partial" THEN "draft"
    ELSE IF thread[t].job = "answers" /\ thread[t].decision # "ready_for_final_delivery" THEN "draft"
    ELSE "approved"
Judge(t) ==
    /\ thread[t].pc = "deliver"
    /\ \/ Become(t, Calm)
       \/ \E quality \in {"success", "partial"} :
            thread' = [thread EXCEPT ![t].pc = "remember", ![t].decision = Verdict(t, quality)]
    /\ UNCHANGED <<evidence, assurance, approvedOnce, word, overlap, requests, trustCrashes>>

\* _remember_trust_evidence, _upsert_trust_evidence_entry
Collect(t) ==
    /\ thread[t].pc = "remember"
    /\ \E ev \in EvidenceRead(t) :
         thread' = [thread EXCEPT ![t].pc = "remember_save",
                      ![t].ev = [ev EXCEPT ![thread[t].e] = [status |-> thread[t].decision, old |-> FALSE]]]
    /\ Taken(t, HoldsEvidence)
    /\ UNCHANGED <<evidence, assurance, approvedOnce, word, requests, trustCrashes>>
CollectSave(t) ==
    /\ thread[t].pc = "remember_save" /\ SaveEvidence(thread[t].ev) /\ Become(t, Calm)
    /\ UNCHANGED <<assurance, word, overlap, requests, trustCrashes>>

---------------------------------------------------------------------------
(***************************************************************************)
(* Reviews                                                                 *)
(***************************************************************************)
MarkOf(decision) ==
    CASE decision = "approve" -> "approved" [] decision = "revoke" -> "revoked"
      [] decision = "stale" -> "stale" [] OTHER -> "draft"

\* _review_trust_evidence_entry, asked for by itself
Mark(t, e, decision) ==
    /\ thread[t].pc = "idle" /\ Accept
    /\ \E ev \in EvidenceRead(t) :
         /\ ev[e].status # "none"
         /\ Become(t, [Calm EXCEPT !.pc = "mark_save", !.ev = [ev EXCEPT ![e].status = MarkOf(decision)]])
    /\ Taken(t, HoldsEvidence)
    /\ UNCHANGED <<evidence, assurance, approvedOnce, word, trustCrashes>>
MarkSave(t) ==
    /\ thread[t].pc = "mark_save" /\ SaveEvidence(thread[t].ev) /\ Become(t, Calm)
    /\ UNCHANGED <<assurance, word, overlap, requests, trustCrashes>>

\* _review_trust_approval_queue: the questionnaires are read, then the evidence
Review(t, item, decision) ==
    /\ thread[t].pc = "idle" /\ Accept
    /\ \E as \in AssuranceRead(t) :
         /\ as.queue[item].status # "none" /\ as.packs[item[1]].gate # "none"
         /\ Become(t, [Calm EXCEPT !.pc = "review_read", !.item = item, !.decision = decision, !.as = as])
    /\ Taken(t, HoldsAssurance)
    /\ UNCHANGED <<evidence, assurance, approvedOnce, word, trustCrashes>>

Reviewed(as, item, decision) ==
    [as.packs[item[1]].answers EXCEPT
        ![item[2]].state = IF decision \in {"unresolved", "stale"} THEN decision ELSE MarkOf(decision),
        ![item[2]].required = decision \in {"stale", "revoke"}]
\* a revoked critical answer is also reported to the court, which refuses a violation of
\* that type before it changes anything; the review ignores the refusal
ReviewRead(t) ==
    /\ thread[t].pc = "review_read"
    /\ \E ev \in EvidenceRead(t) :
         LET r == thread[t]
             answers == Reviewed(r.as, r.item, r.decision)
             key == answers[r.item[2]].key
             marked == r.decision # "unresolved" /\ key # "none" /\ key \in OnFile(ev)
             synced == WithAnswers(r.as, r.item[1], answers)
         IN thread' = [thread EXCEPT ![t] = [r EXCEPT
                !.pc = "review_save",
                !.ev = IF marked THEN [ev EXCEPT ![key].status = MarkOf(r.decision)] ELSE ev,
                !.as = [synced EXCEPT !.queue[r.item].status = r.decision]]]
    /\ Taken(t, HoldsEvidence)
    /\ UNCHANGED <<evidence, assurance, approvedOnce, word, requests, trustCrashes>>
\* the evidence is written first
ReviewSave(t) ==
    /\ thread[t].pc = "review_save" /\ SaveEvidence(thread[t].ev)
    /\ thread' = [thread EXCEPT ![t].pc = "queue_save", ![t].ev = NoEvidence]
    /\ UNCHANGED <<assurance, word, overlap, requests, trustCrashes>>
QueueSave(t) ==
    /\ thread[t].pc = "queue_save" /\ assurance' = thread[t].as
    /\ word' = [word EXCEPT ![thread[t].item] = thread[t].decision]
    /\ Become(t, Calm)
    /\ UNCHANGED <<evidence, approvedOnce, overlap, requests, trustCrashes>>

---------------------------------------------------------------------------
\* evidence passes its freshness
Age(e) ==
    /\ evidence[e].status # "none" /\ ~evidence[e].old
    /\ \A t \in Threads : ~HoldsEvidence(t)
    /\ evidence' = [evidence EXCEPT ![e].old = TRUE]
    /\ UNCHANGED <<assurance, thread, approvedOnce, word, overlap, requests, trustCrashes>>
\* the gateway stops
TrustCrash ==
    /\ trustCrashes < MaxTrustCrashes /\ \E t \in Threads : thread[t].pc # "idle"
    /\ trustCrashes' = trustCrashes + 1 /\ thread' = [t \in Threads |-> Calm]
    /\ evidence' \in EvidenceNow(Threads) /\ assurance' \in AssuranceNow(Threads)
    /\ overlap' = (overlap \/ evidence' # evidence \/ assurance' # assurance)
    /\ UNCHANGED <<approvedOnce, word, requests>>

TrNext ==
    \/ \E t \in Threads :
        \/ \E q \in Questionnaires : AskQuestions(t, q)
        \/ \E e \in Briefs : AskWatch(t, e)
        \/ \E e \in Evidence, d \in {"approve", "stale", "revoke", "draft"} : Mark(t, e, d)
        \/ \E i \in Items, d \in Decisions : Review(t, i, d)
        \/ Packet(t) \/ PacketSave(t) \/ ReadSupport(t) \/ Build(t) \/ BuildSave(t) \/ Judge(t)
        \/ Collect(t) \/ CollectSave(t) \/ MarkSave(t)
        \/ ReviewRead(t) \/ ReviewSave(t) \/ QueueSave(t)
    \/ \E e \in Evidence : Age(e)
    \/ TrustCrash

TrSpec == TrInit /\ [][TrNext]_trvars

---------------------------------------------------------------------------
(***************************************************************************)
(* Properties                                                              *)
(***************************************************************************)
\* A pack may ship only when no critical answer of it is revoked, stale or queued, and
\* the queue says the same of every answer as the questionnaire does, whatever threads
\* overlap, break off or leave empty (_rollup_trust_questionnaire, _sync_trust_approval_queue).  A
\* critical answer is approved on evidence only if that evidence was on file as approved:
\* a review writes the evidence before the answer, so not even one that breaks off leaves
\* an approved answer on evidence nobody approved (two threads can, and so can a stop in
\* the middle of a write: a review that finds no evidence approves the answer alone).
ReadyIsCleared ==
    \A q \in Questionnaires :
        LET pack == assurance.packs[q]
        IN pack.gate # "none" =>
            /\ \A n \in Questions : /\ assurance.queue[<<q, n>>].state = pack.answers[n].state
                                    /\ assurance.queue[<<q, n>>].required = pack.answers[n].required
            /\ pack.gate = "ready_for_final_delivery" =>
                 \A n \in Critical : /\ pack.answers[n].state \in {"approved", "unresolved"}
                                     /\ ~assurance.queue[<<q, n>>].required
            /\ ~overlap =>
                 \A n \in Critical : pack.answers[n].state = "approved" /\ pack.answers[n].key # "none"
                     => pack.answers[n].key \in approvedOnce

\* The operator's last decision on an answer stands until its questionnaire is built
\* again: the queue and the questionnaire keep it, and what the operator revoked or called
\* stale does not ship, even if a stop broke a later review off.  Unless overlapping threads
\* took the decision back, or the file was lost when a stop met a write of it.
ReviewStands ==
    ~overlap => \A i \in Items :
        word[i] # "none" =>
          /\ assurance.queue[i].status \in {word[i]} \cup
               (IF assurance.queue[i].required THEN {"pending"} ELSE {})
          /\ assurance.packs[i[1]].answers[i[2]].state =
               IF word[i] \in {"stale", "unresolved"} THEN word[i] ELSE MarkOf(word[i])
          /\ i[2] \in Critical /\ word[i] \in {"revoke", "stale"} =>
               assurance.packs[i[1]].gate # "ready_for_final_delivery"
=============================================================================
