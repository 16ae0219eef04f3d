--------------------------- MODULE ExecutionHandoff ---------------------------
(***************************************************************************)
(* Two hosts of the federation: a source host sends execution_request      *)
(* envelopes under its federated_execution warrants; the receiving host    *)
(* queues each one as a job behind a local warrant of its own, and sends   *)
(* the outcome of its local review back as a court_notice envelope.        *)
(* Each host serves every HTTP request on a thread of its own              *)
(* (ThreadingHTTPServer) over JSON stores that only the job store and the  *)
(* inbox lock.  A thread is "idle" between requests; a step is what a      *)
(* handler does between two places where another thread can run.           *)
(* The network keeps every message ever posted, so a message may arrive    *)
(* late, in any order, twice or never.                                     *)
(***************************************************************************)
EXTENDS Naturals, FiniteSets

CONSTANTS
    Warrants,     \* warrants of the source host, class federated_execution
    Linked,       \* those that are sent with a commitment_id
    Envelopes,    \* envelope ids (and nonces) FederationAuthority.issue may draw
    Senders,      \* handler threads of the source host
    Receivers,    \* handler threads of the receiving host
    Lossy,        \* whether a post may time out although the peer got it: a set of answers
    MaxLocal,     \* bound: local warrants issued by the receiving host
    MaxReviews,   \* bound: warrant reviews and case decisions at the receiving host
    MaxHome,      \* bound: operator reviews at the source host
    MaxCrashes    \* bound: process crashes, both hosts

ASSUME HandoffAssumption ==
    /\ Linked \subseteq Warrants
    /\ Lossy \subseteq BOOLEAN
    /\ MaxLocal \in Nat /\ MaxReviews \in Nat /\ MaxHome \in Nat /\ MaxCrashes \in Nat
    /\ "none" \notin Warrants \cup Envelopes
    /\ Envelopes \cap Nat = {}    \* notices are numbered, and their nonces are others

VARIABLES
    warrant,   \* warrants.json of the source host
    proof,     \* its audit events 'federation_envelope_sent' for execution requests
    refs,      \* delivery_refs of its commitments
    sSeen,     \* its replay store (nonces of court notices)
    sth,       \* its handler threads
    lwarrant,  \* warrants.json of the receiving host
    issued,    \* number of local warrants issued
    job,       \* federated_execution_jobs.json
    peerCase,  \* a case of the receiving host that blocks the source host
    rSeen,     \* its replay store (nonces of execution requests)
    rth,       \* its handler threads
    net,       \* every envelope posted
    answered,  \* nonces the peer has answered with 200
    reviews, home, crashes,
    lossy,     \* whether the network of this behaviour may lose an answer
    shared,    \* warrants that two handlers of the source host delivered at once (history)
    hasty      \* requests that had two notices under way at once, or a notice at the
               \* source host before their delivery was on record (history)

source   == <<warrant, proof, refs, sSeen, sth>>
receiver == <<lwarrant, issued, job, peerCase, rSeen, rth>>
vars == <<source, receiver, net, answered, reviews, home, crashes, lossy, shared, hasty>>

None      == "none"
Decisions == {"approve", "stay", "revoke"}
Reviewed(d) == CASE d = "approve" -> "approved" [] d = "stay" -> "stayed" [] d = "revoke" -> "revoked"
ReviewStates == {"auto_issued", "pending_review", "approved", "stayed", "revoked"}
JobStates == {"pending_local_warrant", "ready", "blocked", "rejected"}
LocalIds  == 1 .. MaxLocal
NoticeIds == 1 .. MaxReviews

Requests == [type : {"execution_request"}, e : Envelopes, w : Warrants]
Notices  == [type : {"court_notice"}, e : Envelopes, w : Warrants, n : NoticeIds, d : Decisions]

SIdle == [pc |-> "idle", w |-> None, e |-> None, n |-> 0, d |-> None]
RIdle == [pc |-> "idle", e |-> None, w |-> None, lw |-> 0, d |-> None, saw |-> None,
          sent |-> None, n |-> 0]
NoJob == [state |-> None, lw |-> 0, w |-> None, notice |-> None]

Fresh    == Envelopes \ {m.e : m \in {x \in net : x.type = "execution_request"}}
SIs(t, p) == sth[t].pc = p
RIs(t, p) == rth[t].pc = p
Crashed  == crashes < MaxCrashes

Init ==
    /\ warrant \in [Warrants -> [review : {"auto_issued", "pending_review"}, exec : {"ready"}]]
    /\ proof = {} /\ refs = {} /\ sSeen = {}
    /\ sth = [t \in Senders |-> SIdle]
    /\ lwarrant = [i \in LocalIds |-> [review |-> None, e |-> None]]
    /\ issued = 0
    /\ job = [e \in Envelopes |-> NoJob]
    /\ peerCase = [status |-> None, lw |-> 0]
    /\ rSeen = {}
    /\ rth = [t \in Receivers |-> RIdle]
    /\ net = {} /\ answered = {}
    /\ reviews = 0 /\ home = 0 /\ crashes = 0
    /\ lossy \in Lossy /\ shared = {} /\ hasty = {}

(***************************************************************************)
(* The source host: delivery of an execution request.                      *)
(***************************************************************************)
SStep(t, r) == sth' = [sth EXCEPT ![t] = r]

\* Mutant: a warrant whose execution is already recorded is accepted again
Executable_spent(w) == warrant[w].review \in {"auto_issued", "approved"}
\* validate_warrant_for_execution, as the delivery reads the warrant
Executable(w) == warrant[w].review \in {"auto_issued", "approved"} /\ warrant[w].exec = "ready"

SendValidate(t, w) ==
    /\ SIs(t, "idle") /\ Executable(w)
    /\ Cardinality({u \in Senders : SIs(u, "validated")}) < Cardinality(Fresh)
    /\ SStep(t, [SIdle EXCEPT !.pc = "validated", !.w = w])
    /\ UNCHANGED <<warrant, proof, refs, sSeen, receiver, net, answered, reviews, home, crashes, lossy>>

\* issue draws a fresh envelope id and nonce for every attempt, retries included
SendPost(t, e) ==
    /\ SIs(t, "validated") /\ e \in Fresh
    /\ net' = net \cup {[type |-> "execution_request", e |-> e, w |-> sth[t].w]}
    /\ SStep(t, [sth[t] EXCEPT !.pc = "posted", !.e = e])
    /\ UNCHANGED <<warrant, proof, refs, sSeen, receiver, answered, reviews, home, crashes, lossy>>

\* Mutant: _validate_delivery_receipt accepts an empty receipt, so does the caller
GotReceipt_none(t) == TRUE
\* the post returned 200 with a receipt for this envelope
GotReceipt(t) == sth[t].e \in answered

SendAnswered(t) ==
    /\ SIs(t, "posted") /\ GotReceipt(t)
    /\ SStep(t, [sth[t] EXCEPT !.pc = "answered"])
    /\ UNCHANGED <<warrant, proof, refs, sSeen, receiver, net, answered, reviews, home, crashes, lossy>>

\* Mutant: the HTTP client posts without a timeout
SendFails_never(t) == FALSE /\ SIs(t, "posted") /\ UNCHANGED vars
\* timeout or transport error: FederationDeliveryError, no case, nothing recorded
SendFails(t) ==
    /\ lossy /\ SIs(t, "posted")
    /\ SStep(t, SIdle)
    /\ UNCHANGED <<warrant, proof, refs, sSeen, receiver, net, answered, reviews, home, crashes, lossy>>

\* record_delivery_ref for a commitment, otherwise mark_warrant_executed
SendMark(t) ==
    LET w == sth[t].w IN
    /\ SIs(t, "answered")
    /\ \/ /\ w \in Linked
          /\ refs' = refs \cup {<<w, sth[t].e>>}
          /\ SStep(t, [sth[t] EXCEPT !.pc = "marked"])
          /\ UNCHANGED warrant
       \/ /\ w \notin Linked /\ warrant[w].exec = "ready"
          /\ warrant' = [warrant EXCEPT ![w].exec = "executed"]
          /\ SStep(t, [sth[t] EXCEPT !.pc = "marked"])
          /\ UNCHANGED refs
       \/ /\ w \notin Linked /\ warrant[w].exec # "ready"
          /\ SStep(t, SIdle)
          /\ UNCHANGED <<warrant, refs>>
    /\ UNCHANGED <<proof, sSeen, receiver, net, answered, reviews, home, crashes, lossy>>

\* log_event 'federation_envelope_sent', after the witness archive round trips
SendAudit(t) ==
    /\ SIs(t, "marked")
    /\ proof' = proof \cup {<<sth[t].w, sth[t].e>>}
    /\ SStep(t, SIdle)
    /\ UNCHANGED <<warrant, refs, sSeen, receiver, net, answered, reviews, home, crashes, lossy>>

(***************************************************************************)
(* The source host: its own reviews, settlement, and court notices.        *)
(***************************************************************************)
ReviewSource(w, d) ==
    /\ home < MaxHome
    /\ warrant' = [warrant EXCEPT ![w].review = Reviewed(d)]
    /\ home' = home + 1
    /\ UNCHANGED <<proof, refs, sSeen, sth, receiver, net, answered, reviews, crashes, lossy>>

\* a settlement_notice for the commitment: the warrant of its last delivery
\* is marked executed, whatever its review state
FinalizeSenderWarrant(t, w) ==
    /\ SIs(t, "idle") /\ \E e \in Envelopes : <<w, e>> \in refs
    /\ warrant[w].exec = "ready"
    /\ warrant' = [warrant EXCEPT ![w].exec = "executed"]
    /\ UNCHANGED <<proof, refs, sSeen, sth, receiver, net, answered, reviews, home, crashes, lossy>>

\* Mutant: the nonce of a court notice is not looked up
SUnseen_replayed(n) == TRUE
SUnseen(n) == n \notin sSeen

NoticeAccept(t, m) ==
    /\ SIs(t, "idle") /\ m.type = "court_notice" /\ SUnseen(m.n)
    /\ sSeen' = sSeen \cup {m.n}
    /\ SStep(t, [pc |-> "notice", w |-> m.w, e |-> m.e, n |-> m.n, d |-> m.d])
    /\ UNCHANGED <<warrant, proof, refs, receiver, net, answered, reviews, home, crashes, lossy>>

Applicable(t) == <<sth[t].w, sth[t].e>> \in proof /\ warrant[sth[t].w].exec # "executed"

NoticeCheck(t) ==
    /\ SIs(t, "notice")
    /\ \/ /\ Applicable(t)
          /\ SStep(t, [sth[t] EXCEPT !.pc = "checked"])
          /\ UNCHANGED answered
       \/ /\ ~Applicable(t)  \* 'invalid_court_notice' or 'warrant_already_executed'
          /\ SStep(t, SIdle)
          /\ answered' = answered \cup {sth[t].n}
    /\ UNCHANGED <<warrant, proof, refs, sSeen, receiver, net, reviews, home, crashes, lossy>>

\* the delivery_ref this adds to a linked commitment names the same envelope and
\* warrant as the ref of the delivery itself, so refs stays as it is
NoticeApply(t) ==
    /\ SIs(t, "checked")
    /\ warrant' = [warrant EXCEPT ![sth[t].w].review = Reviewed(sth[t].d)]
    /\ answered' = answered \cup {sth[t].n}
    /\ SStep(t, SIdle)
    /\ UNCHANGED <<proof, refs, sSeen, receiver, net, reviews, home, crashes, lossy>>

(***************************************************************************)
(* The receiving host: /api/federation/receive for an execution request.   *)
(***************************************************************************)
RStep(t, r) == rth' = [rth EXCEPT ![t] = r]

RUnseen(e) == e \notin rSeen

\* validate: the thread's own ReplayStore, read from the file, has no such nonce
RecvValidate(t, m) ==
    /\ RIs(t, "idle") /\ m.type = "execution_request" /\ RUnseen(m.e)
    /\ RStep(t, [RIdle EXCEPT !.pc = "validated", !.e = m.e, !.w = m.w])
    /\ UNCHANGED <<source, lwarrant, issued, job, peerCase, rSeen, net, answered, reviews, home, crashes, lossy>>

\* the nonce is appended to the file and the inbox entry is 'received'
RecvAccept(t) ==
    /\ RIs(t, "validated")
    /\ rSeen' = rSeen \cup {rth[t].e}
    /\ RStep(t, [rth[t] EXCEPT !.pc = "accepted"])
    /\ UNCHANGED <<source, lwarrant, issued, job, peerCase, net, answered, reviews, home, crashes, lossy>>

PeerBlocked == peerCase.status \in {"open", "stayed"}

\* Mutant: the thread stops at the active case without storing a blocked job
BlockedJob_dropped(e, w) == NoJob

\* the job of a request that an active case of the receiver blocks
BlockedJob(e, w) == [NoJob EXCEPT !.state = "blocked", !.w = w]

\* _queue_received_execution_request up to issue_warrant
RecvIssue(t) ==
    LET e == rth[t].e IN
    /\ RIs(t, "accepted")
    /\ \/ /\ job[e].state # None               \* existing job: answer with it
          /\ answered' = answered \cup {e}
          /\ RStep(t, RIdle)
          /\ UNCHANGED <<lwarrant, issued, job>>
       \/ /\ job[e].state = None /\ PeerBlocked  \* blocked job, no local warrant
          /\ job' = [job EXCEPT ![e] = BlockedJob(e, rth[t].w)]
          /\ answered' = answered \cup {e}
          /\ RStep(t, RIdle)
          /\ UNCHANGED <<lwarrant, issued>>
       \/ /\ job[e].state = None /\ ~PeerBlocked /\ issued < MaxLocal
          /\ issued' = issued + 1
          /\ lwarrant' = [lwarrant EXCEPT ![issued + 1] = [review |-> "pending_review", e |-> e]]
          /\ RStep(t, [rth[t] EXCEPT !.pc = "issued", !.lw = issued + 1])
          /\ UNCHANGED <<job, answered>>
    /\ UNCHANGED <<source, peerCase, rSeen, net, reviews, home, crashes, lossy>>

\* upsert_execution_job, keyed by the envelope
RecvQueue(t) ==
    /\ RIs(t, "issued")
    /\ job' = [job EXCEPT ![rth[t].e] = [state |-> "pending_local_warrant", lw |-> rth[t].lw,
                                         w |-> rth[t].w, notice |-> None]]
    /\ answered' = answered \cup {rth[t].e}
    /\ RStep(t, RIdle)
    /\ UNCHANGED <<source, lwarrant, issued, peerCase, rSeen, net, reviews, home, crashes, lossy>>

(***************************************************************************)
(* The receiving host: warrant review, job sync and the court notice.      *)
(***************************************************************************)
\* _execution_job_state_for_warrant (the execution state stays 'ready' here)
JobStateFor(review) ==
    CASE review = "approved"       -> "ready"
      [] review = "pending_review" -> "pending_local_warrant"
      [] review = "stayed"         -> "blocked"
      [] review = "revoked"        -> "rejected"

\* review_warrant: the review state is replaced whatever it was
LocalReview(t, i, d) ==
    /\ lwarrant' = [lwarrant EXCEPT ![i].review = Reviewed(d)]
    /\ RStep(t, [RIdle EXCEPT !.pc = "reviewed", !.lw = i, !.d = d, !.saw = Reviewed(d)])

Review(t, i, d) ==
    /\ RIs(t, "idle") /\ i <= issued /\ reviews < MaxReviews
    /\ LocalReview(t, i, d)
    /\ reviews' = reviews + 1
    /\ UNCHANGED <<source, issued, job, peerCase, rSeen, net, answered, home, crashes, lossy>>

JobsOf(i) == {e \in Envelopes : job[e].lw = i /\ i # 0}

\* _sync_execution_job_for_warrant_review, from the record the review returned
Sync(t) ==
    /\ RIs(t, "reviewed")
    /\ \/ /\ JobsOf(rth[t].lw) = {}
          /\ RStep(t, RIdle)
          /\ UNCHANGED job
       \/ \E e \in JobsOf(rth[t].lw) :
             /\ job' = [job EXCEPT ![e].state = JobStateFor(rth[t].saw)]
             /\ RStep(t, [rth[t] EXCEPT !.pc = "synced", !.e = e, !.w = job[e].w,
                                        !.sent = job[e].notice])
    /\ UNCHANGED <<source, lwarrant, issued, peerCase, rSeen, net, answered, reviews, home, crashes, lossy>>

\* the warrant a case is linked to is stayed unless stayed or revoked already
Holdable(i) == i # 0 /\ lwarrant[i].review \notin {"stayed", "revoked"}

NextNotice == Cardinality({m \in net : m.type = "court_notice"}) + 1

\* _deliver_execution_job_court_notice up to the post
Notify(t) ==
    /\ RIs(t, "synced")
    /\ \/ /\ rth[t].sent = rth[t].d                    \* already_sent
          /\ RStep(t, RIdle)
          /\ UNCHANGED <<lwarrant, net>>
       \/ /\ rth[t].sent # rth[t].d /\ PeerBlocked     \* the case blocks the notice too
          /\ \/ Holdable(peerCase.lw) /\ LocalReview(t, peerCase.lw, "stay")
             \/ ~Holdable(peerCase.lw) /\ RStep(t, RIdle) /\ UNCHANGED lwarrant
          /\ UNCHANGED net
       \/ /\ rth[t].sent # rth[t].d /\ ~PeerBlocked
          /\ net' = net \cup {[type |-> "court_notice", e |-> rth[t].e, w |-> rth[t].w,
                               n |-> NextNotice, d |-> rth[t].d]}
          /\ RStep(t, [rth[t] EXCEPT !.pc = "notified", !.n = NextNotice])
          /\ UNCHANGED lwarrant
    /\ UNCHANGED <<source, issued, job, peerCase, rSeen, answered, reviews, home, crashes, lossy>>

Notified(t) ==
    /\ RIs(t, "notified") /\ rth[t].n \in answered
    /\ job' = [job EXCEPT ![rth[t].e].notice = rth[t].d]
    /\ RStep(t, RIdle)
    /\ UNCHANGED <<source, lwarrant, issued, peerCase, rSeen, net, answered, reviews, home, crashes, lossy>>

\* the post times out: the failure is logged and nothing retries the notice
NotifyFails(t) ==
    /\ lossy /\ RIs(t, "notified")
    /\ RStep(t, RIdle)
    /\ UNCHANGED <<source, lwarrant, issued, job, peerCase, rSeen, net, answered, reviews, home, crashes, lossy>>

(***************************************************************************)
(* The receiving host: a case against the source host.                     *)
(***************************************************************************)
OpenCase(t, i) ==
    /\ RIs(t, "idle") /\ peerCase.status = None /\ i <= issued /\ reviews < MaxReviews
    /\ peerCase' = [status |-> "open", lw |-> i]
    /\ RStep(t, [RIdle EXCEPT !.pc = "hold", !.lw = i])
    /\ reviews' = reviews + 1
    /\ UNCHANGED <<source, lwarrant, issued, job, rSeen, net, answered, home, crashes, lossy>>

ReviewCase(t, status) ==
    /\ RIs(t, "idle") /\ peerCase.status # None /\ reviews < MaxReviews
    /\ peerCase' = [peerCase EXCEPT !.status = status]
    /\ RStep(t, IF status = "stayed" THEN [RIdle EXCEPT !.pc = "hold", !.lw = peerCase.lw] ELSE RIdle)
    /\ reviews' = reviews + 1
    /\ UNCHANGED <<source, lwarrant, issued, job, rSeen, net, answered, home, crashes, lossy>>

\* _maybe_stay_warrant_for_case
Hold(t) ==
    /\ RIs(t, "hold")
    /\ \/ Holdable(rth[t].lw) /\ LocalReview(t, rth[t].lw, "stay")
       \/ ~Holdable(rth[t].lw) /\ RStep(t, RIdle) /\ UNCHANGED lwarrant
    /\ UNCHANGED <<source, issued, job, peerCase, rSeen, net, answered, reviews, home, crashes, lossy>>

(***************************************************************************)
(* Crashes: a process loses its threads; the stores stay.                  *)
(***************************************************************************)
CrashSource ==
    /\ Crashed /\ \E t \in Senders : ~SIs(t, "idle")
    /\ sth' = [t \in Senders |-> SIdle]
    /\ crashes' = crashes + 1
    /\ UNCHANGED <<warrant, proof, refs, sSeen, receiver, net, answered, reviews, home, lossy>>

CrashReceiver ==
    /\ Crashed /\ \E t \in Receivers : ~RIs(t, "idle")
    /\ rth' = [t \in Receivers |-> RIdle]
    /\ crashes' = crashes + 1
    /\ UNCHANGED <<source, lwarrant, issued, job, peerCase, rSeen, net, answered, reviews, home, lossy>>

SenderStep(t) ==
    \/ \E e \in Envelopes : SendPost(t, e)
    \/ SendAnswered(t) \/ SendFails(t) \/ SendMark(t) \/ SendAudit(t)
    \/ NoticeCheck(t) \/ NoticeApply(t)

ReceiverStep(t) ==
    \/ RecvAccept(t) \/ RecvIssue(t) \/ RecvQueue(t)
    \/ Hold(t) \/ Sync(t) \/ Notify(t) \/ Notified(t) \/ NotifyFails(t)

Holds(r, w) == r.pc \in {"validated", "posted", "answered"} /\ r.w = w
Records(r, e) == r.pc \in {"posted", "answered", "marked"} /\ r.e = e
Hears(r, e) == r.pc = "notice" /\ r.e = e
Awaits(r, e) == r.pc = "notified" /\ r.e = e
Watch ==
    /\ shared' = shared \cup {w \in Warrants :
          \E t, u \in Senders : t # u /\ Holds(sth'[t], w) /\ Holds(sth'[u], w)}
    /\ hasty' = hasty \cup {e \in Envelopes :
          \/ \E t, u \in Receivers : t # u /\ Awaits(rth'[t], e) /\ Awaits(rth'[u], e)
          \/ \E t, u \in Senders : Hears(sth'[t], e) /\ Records(sth'[u], e)}

SourceNext ==
    \/ \E t \in Senders :
          \/ SenderStep(t)
          \/ \E w \in Warrants : SendValidate(t, w) \/ FinalizeSenderWarrant(t, w)
          \/ \E m \in net : NoticeAccept(t, m)
    \/ \E w \in Warrants, d \in Decisions : ReviewSource(w, d)
    \/ CrashSource
ReceiverNext ==
    \/ \E t \in Receivers :
          \/ ReceiverStep(t)
          \/ \E m \in net : RecvValidate(t, m)
          \/ \E i \in LocalIds, d \in Decisions : Review(t, i, d)
          \/ \E i \in LocalIds \cup {0} : OpenCase(t, i)
          \/ \E s \in {"stayed", "resolved"} : ReviewCase(t, s)
    \/ CrashReceiver
Next == (SourceNext \/ ReceiverNext) /\ Watch

Spec == Init /\ [][Next]_vars

\* a started handler runs on (a post ends by its answer or by the 10 s timeout
\* of the HTTP client), and a posted request reaches a thread of the receiver
Fairness ==
    /\ \A t \in Senders : WF_vars(SenderStep(t) /\ Watch)
    /\ \A t \in Receivers : WF_vars(ReceiverStep(t) /\ Watch)
FairSpec == Spec /\ Fairness

(***************************************************************************)
(* Properties.                                                             *)
(***************************************************************************)
Requested(e, w) == [type |-> "execution_request", e |-> e, w |-> w] \in net
Received(e, w)  == Requested(e, w) /\ e \in rSeen

\* A warrant the source host has marked executed, and every outbound proof it
\* keeps for court notices, stands for a request under that warrant whose
\* nonce the receiving host has consumed: no record runs ahead of the delivery.
ExecutedWasReceived ==
    /\ \A w \in Warrants \ Linked :
          warrant[w].exec = "executed" => \E e \in Envelopes : Received(e, w)
    /\ \A p \in proof \cup refs : Received(p[2], p[1])

\* no answer lost and no host down so far
Calm == ~lossy /\ crashes = 0

\* In calm, a warrant sent without a commitment buys one execution: no two
\* envelopes under it end as jobs (mark_warrant_executed refuses a second one),
\* unless two requests delivered it at once: it is validated before the post and
\* marked after it.
SingleUse ==
    Calm => \A w \in Warrants \ (Linked \cup shared) : \A e, f \in Envelopes :
        job[e].state # None /\ job[f].state # None /\ job[e].w = w /\ job[f].w = w => e = f

\* In calm, when no handler waits for the answer to a notice, a sender warrant
\* that was neither executed nor reviewed at home, and whose only request was
\* reviewed remotely, shows the decision the receiver last recorded as sent,
\* unless notices of the request crossed each other or the record of its delivery.
AtRest == \A t \in Receivers : ~RIs(t, "notified")
SourceReflectsReview ==
    \A e \in Envelopes \ hasty :
        /\ Calm /\ AtRest /\ home = 0 /\ job[e].notice # None
        /\ warrant[job[e].w].exec = "ready"
        /\ \A f \in Envelopes : Requested(f, job[e].w) => f = e
        => warrant[job[e].w].review = Reviewed(job[e].notice)

\* Once the nonce of a request is consumed its job appears, whatever the
\* other threads do, unless a host goes down: a blocked, a pending or an
\* existing one.
AcceptedIsQueued ==
    \A e \in Envelopes : e \in rSeen ~> job[e].state # None \/ crashes > 0

\* Two hosts that wait for each other's answers do not wait for ever: every
\* handler of the source host comes to its end, since requests time out.
HandlersReturn == \A t \in Senders : lossy /\ ~SIs(t, "idle") ~> SIs(t, "idle")
=============================================================================
