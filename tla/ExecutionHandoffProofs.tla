------------------------ MODULE ExecutionHandoffProofs ------------------------
(* Theorems about ExecutionHandoff for any number of warrants, envelopes and  *)
(* threads on both hosts, with lost answers, crashes, repeated and reordered  *)
(* messages.                                                                  *)
EXTENDS ExecutionHandoff, FiniteSetTheorems, TLAPS

SourceThread ==
    [pc : {"idle", "validated", "posted", "answered", "marked", "notice", "checked"},
     w : Warrants \cup {None}, e : Envelopes \cup {None}, n : Nat, d : Decisions \cup {None}]
ReceiverThread ==
    [pc : {"idle", "validated", "accepted", "issued", "reviewed", "synced", "notified", "hold"},
     e : Envelopes \cup {None}, w : Warrants \cup {None}, lw : 0 .. MaxLocal,
     d : Decisions \cup {None}, saw : ReviewStates \cup {None}, sent : Decisions \cup {None},
     n : Nat]
Job == [state : JobStates \cup {None}, lw : 0 .. MaxLocal, w : Warrants \cup {None},
        notice : Decisions \cup {None}]
AnyNotices == [type : {"court_notice"}, e : Envelopes, w : Warrants, n : Nat, d : Decisions]

\* What the fields of a thread hold at each of its places.
SourceThreadOK(r) ==
    /\ r.pc # "idle" => r.w \in Warrants
    /\ r.pc \in {"posted", "answered", "marked", "notice", "checked"} => r.e \in Envelopes
    /\ r.pc \in {"notice", "checked"} => r.d \in Decisions
ReceiverThreadOK(r) ==
    /\ r.pc \in {"validated", "accepted", "issued", "synced", "notified"} =>
          r.e \in Envelopes /\ r.w \in Warrants
    /\ r.pc \in {"reviewed", "synced", "notified"} => r.d \in Decisions
    /\ r.pc = "reviewed" => r.saw \in {"approved", "stayed", "revoked"}
    /\ r.pc = "issued" => r.lw \in LocalIds
JobOK(j) == j.lw # 0 => j.w \in Warrants /\ j.state # None

TypeInv ==
    /\ warrant \in [Warrants -> [review : ReviewStates, exec : {"ready", "executed"}]]
    /\ proof \subseteq Warrants \X Envelopes
    /\ refs \subseteq Linked \X Envelopes
    /\ sSeen \subseteq Nat
    /\ sth \in [Senders -> SourceThread]
    /\ \A t \in Senders : SourceThreadOK(sth[t])
    /\ lwarrant \in [LocalIds -> [review : ReviewStates \cup {None}, e : Envelopes \cup {None}]]
    /\ issued \in 0 .. MaxLocal
    /\ job \in [Envelopes -> Job]
    /\ \A e \in Envelopes : JobOK(job[e])
    /\ peerCase \in [status : {None, "open", "stayed", "resolved"}, lw : 0 .. MaxLocal]
    /\ rSeen \subseteq Envelopes
    /\ rth \in [Receivers -> ReceiverThread]
    /\ \A t \in Receivers : ReceiverThreadOK(rth[t])
    /\ net \subseteq Requests \cup AnyNotices /\ IsFiniteSet(net)
    /\ answered \subseteq Envelopes \cup Nat
    /\ reviews \in Nat /\ home \in Nat /\ crashes \in Nat
    /\ lossy \in BOOLEAN
    /\ shared \subseteq Warrants /\ hasty \subseteq Envelopes

\* A record of the source host never runs ahead of what the receiving host did:
\* an answer to a request follows its nonce, a thread past its post has posted
\* the request, and one past the answer was answered.
RecordsInv ==
    /\ \A e \in Envelopes : e \in answered => e \in rSeen
    /\ \A t \in Receivers : rth[t].pc \in {"accepted", "issued"} => rth[t].e \in rSeen
    /\ \A t \in Senders :
          /\ sth[t].pc \in {"posted", "answered", "marked"} => Requested(sth[t].e, sth[t].w)
          /\ sth[t].pc \in {"answered", "marked"} => sth[t].e \in answered
    /\ ExecutedWasReceived

\* Every job, and every thread that will store one, stands for a posted request.
JobsRequested ==
    /\ \A e \in Envelopes : job[e].state # None => Requested(e, job[e].w)
    /\ \A t \in Receivers : rth[t].pc \in {"validated", "accepted", "issued"} =>
          Requested(rth[t].e, rth[t].w)

\* A warrant w that one thread at a time delivers: its holder finds it ready
\* until the mark, before the post there is no request under it, and a request
\* under it belongs to its holder or to the execution already marked.
Delivers(t, e, w) == sth[t].pc \in {"posted", "answered"} /\ sth[t].w = w /\ sth[t].e = e
OneHolder(w) == \A t, u \in Senders : Holds(sth[t], w) /\ Holds(sth[u], w) => t = u
HeldIsReady(w) == \A t \in Senders : Holds(sth[t], w) => warrant[w].exec = "ready"
RequestHeld(w) == \A e \in Envelopes : Requested(e, w) =>
    warrant[w].exec = "executed" \/ \E t \in Senders : Delivers(t, e, w)
OneRequest(w) == \A e, f \in Envelopes : Requested(e, w) /\ Requested(f, w) => e = f
NotYetPosted(w) == \A t \in Senders, e \in Envelopes :
    sth[t].pc = "validated" /\ sth[t].w = w => ~Requested(e, w)
OneDelivery(w) ==
    OneHolder(w) /\ HeldIsReady(w) /\ RequestHeld(w) /\ OneRequest(w) /\ NotYetPosted(w)
SingleInv == Calm => \A w \in Warrants \ (Linked \cup shared) : OneDelivery(w)

(***************************************************************************)
(* Types.                                                                  *)
(***************************************************************************)
LEMMA InitTyped == Init => TypeInv
<1> SUFFICES ASSUME Init PROVE TypeInv
  OBVIOUS
<1> USE HandoffAssumption DEF Init
<1>1. /\ SIdle \in SourceThread /\ SourceThreadOK(SIdle)
      /\ RIdle \in ReceiverThread /\ ReceiverThreadOK(RIdle)
      /\ NoJob \in Job /\ JobOK(NoJob)
  BY DEF SIdle, RIdle, NoJob, SourceThread, SourceThreadOK, ReceiverThread, ReceiverThreadOK, Job,
         JobOK, JobStates, None, ReviewStates
<1>2. sth \in [Senders -> SourceThread] /\ \A t \in Senders : SourceThreadOK(sth[t])
  BY <1>1
<1>3. rth \in [Receivers -> ReceiverThread] /\ \A t \in Receivers : ReceiverThreadOK(rth[t])
  BY <1>1
<1>4. job \in [Envelopes -> Job] /\ \A e \in Envelopes : JobOK(job[e])
  BY <1>1
<1>5. warrant \in [Warrants -> [review : ReviewStates, exec : {"ready", "executed"}]]
  <2>1. [review : {"auto_issued", "pending_review"}, exec : {"ready"}]
           \subseteq [review : ReviewStates, exec : {"ready", "executed"}]
    BY DEF ReviewStates
  <2> QED BY <2>1
<1>6. lwarrant \in [LocalIds -> [review : ReviewStates \cup {None}, e : Envelopes \cup {None}]]
  BY DEF ReviewStates
<1>7. peerCase \in [status : {None, "open", "stayed", "resolved"}, lw : 0 .. MaxLocal]
  BY DEF None
<1>8. IsFiniteSet(net)
  BY FS_EmptySet
<1> QED BY <1>2, <1>3, <1>4, <1>5, <1>6, <1>7, <1>8 DEF TypeInv

\* A step of one thread keeps the types of all when its new record has them.
LEMMA SStepTyped ==
    ASSUME TypeInv, NEW t \in Senders, NEW r \in SourceThread, SourceThreadOK(r), SStep(t, r)
    PROVE  sth' \in [Senders -> SourceThread] /\ \A u \in Senders : SourceThreadOK(sth'[u])
BY DEF TypeInv, SStep

LEMMA RStepTyped ==
    ASSUME TypeInv, NEW t \in Receivers, NEW r \in ReceiverThread, ReceiverThreadOK(r), RStep(t, r)
    PROVE  rth' \in [Receivers -> ReceiverThread] /\ \A u \in Receivers : ReceiverThreadOK(rth'[u])
BY DEF TypeInv, RStep

LEMMA SIdleTyped == SIdle \in SourceThread /\ SourceThreadOK(SIdle)
BY DEF SIdle, SourceThread, SourceThreadOK, None

LEMMA RIdleTyped == RIdle \in ReceiverThread /\ ReceiverThreadOK(RIdle)
BY HandoffAssumption DEF RIdle, ReceiverThread, ReceiverThreadOK, None

LEMMA ReviewedTyped == \A d \in Decisions : Reviewed(d) \in {"approved", "stayed", "revoked"}
BY DEF Decisions, Reviewed

\* Posting an envelope keeps the network typed and finite.
LEMMA Posted ==
    ASSUME TypeInv, NEW m \in Requests \cup AnyNotices
    PROVE  net \cup {m} \subseteq Requests \cup AnyNotices /\ IsFiniteSet(net \cup {m})
BY FS_AddElement DEF TypeInv

LEMMA SourceTyped ==
    ASSUME TypeInv, SourceNext, Watch
    PROVE  TypeInv'
<1>0. shared' \subseteq Warrants /\ hasty' \subseteq Envelopes
  BY DEF TypeInv, Watch
<1> USE HandoffAssumption
<1>1. ASSUME NEW t \in Senders, NEW w \in Warrants, SendValidate(t, w) PROVE TypeInv'
  <2> DEFINE r == [SIdle EXCEPT !.pc = "validated", !.w = w]
  <2>1. r \in SourceThread /\ SourceThreadOK(r)
    BY DEF SIdle, SourceThread, SourceThreadOK
  <2>2. SStep(t, r)
    BY <1>1 DEF SendValidate
  <2> QED BY <1>0, <1>1, <2>1, <2>2, SStepTyped DEF SendValidate, TypeInv, receiver
<1>2. ASSUME NEW t \in Senders, NEW e \in Envelopes, SendPost(t, e) PROVE TypeInv'
  <2> DEFINE r == [sth[t] EXCEPT !.pc = "posted", !.e = e]
             m == [type |-> "execution_request", e |-> e, w |-> sth[t].w]
  <2>1. sth[t] \in SourceThread /\ sth[t].w \in Warrants
    BY <1>2 DEF TypeInv, SourceThreadOK, SendPost, SIs
  <2>2. r \in SourceThread /\ SourceThreadOK(r)
    BY <2>1 DEF SourceThread, SourceThreadOK
  <2>3. m \in Requests
    BY <2>1 DEF Requests
  <2>4. SStep(t, r) /\ net' = net \cup {m}
    BY <1>2 DEF SendPost
  <2> QED BY <1>0, <1>2, <2>2, <2>3, <2>4, SStepTyped, Posted DEF SendPost, TypeInv, receiver
<1>3. ASSUME NEW t \in Senders, SendAnswered(t) PROVE TypeInv'
  <2> DEFINE r == [sth[t] EXCEPT !.pc = "answered"]
  <2>1. sth[t] \in SourceThread /\ SourceThreadOK(sth[t]) /\ sth[t].pc = "posted"
    BY <1>3 DEF TypeInv, SendAnswered, SIs
  <2>2. r \in SourceThread /\ SourceThreadOK(r)
    BY <2>1 DEF SourceThread, SourceThreadOK
  <2>3. SStep(t, r)
    BY <1>3 DEF SendAnswered
  <2> QED BY <1>0, <1>3, <2>2, <2>3, SStepTyped DEF SendAnswered, TypeInv, receiver
<1>4. ASSUME NEW t \in Senders, SendFails(t) PROVE TypeInv'
  BY <1>0, <1>4, SIdleTyped, SStepTyped DEF SendFails, TypeInv, receiver
<1>5. ASSUME NEW t \in Senders, SendMark(t) PROVE TypeInv'
  <2> DEFINE r == [sth[t] EXCEPT !.pc = "marked"]
  <2>1. /\ sth[t] \in SourceThread /\ SourceThreadOK(sth[t]) /\ sth[t].pc = "answered"
        /\ sth[t].w \in Warrants /\ sth[t].e \in Envelopes
    BY <1>5 DEF TypeInv, SourceThreadOK, SendMark, SIs
  <2>2. r \in SourceThread /\ SourceThreadOK(r)
    BY <2>1 DEF SourceThread, SourceThreadOK
  <2>3. SStep(t, r) \/ SStep(t, SIdle)
    BY <1>5 DEF SendMark
  <2>4. refs' \subseteq Linked \X Envelopes
    BY <1>5, <2>1 DEF SendMark, TypeInv
  <2>5. warrant' \in [Warrants -> [review : ReviewStates, exec : {"ready", "executed"}]]
    <3>1. CASE warrant' = warrant
      BY <3>1 DEF TypeInv
    <3>2. CASE warrant' = [warrant EXCEPT ![sth[t].w].exec = "executed"]
      BY <2>1, <3>2 DEF TypeInv
    <3> QED BY <1>5, <3>1, <3>2 DEF SendMark
  <2> QED BY <1>0, <1>5, <2>2, <2>3, <2>4, <2>5, SIdleTyped, SStepTyped DEF SendMark, TypeInv, receiver
<1>6. ASSUME NEW t \in Senders, SendAudit(t) PROVE TypeInv'
  <2>1. sth[t].w \in Warrants /\ sth[t].e \in Envelopes
    BY <1>6 DEF TypeInv, SourceThreadOK, SendAudit, SIs
  <2> QED BY <1>0, <1>6, <2>1, SIdleTyped, SStepTyped DEF SendAudit, TypeInv, receiver
<1>7. ASSUME NEW t \in Senders, NEW w \in Warrants, FinalizeSenderWarrant(t, w) PROVE TypeInv'
  BY <1>0, <1>7 DEF FinalizeSenderWarrant, TypeInv, receiver
<1>8. ASSUME NEW t \in Senders, NEW m \in net, NoticeAccept(t, m) PROVE TypeInv'
  <2> DEFINE r == [pc |-> "notice", w |-> m.w, e |-> m.e, n |-> m.n, d |-> m.d]
  <2>1. m \in AnyNotices
    BY <1>8 DEF NoticeAccept, TypeInv, Requests
  <2>2. r \in SourceThread /\ SourceThreadOK(r) /\ m.n \in Nat
    BY <2>1 DEF AnyNotices, SourceThread, SourceThreadOK
  <2>3. SStep(t, r) /\ sSeen' \subseteq Nat
    BY <1>8, <2>2 DEF NoticeAccept, TypeInv
  <2> QED BY <1>0, <1>8, <2>2, <2>3, SStepTyped DEF NoticeAccept, TypeInv, receiver
<1>9. ASSUME NEW t \in Senders, NoticeCheck(t) PROVE TypeInv'
  <2> DEFINE r == [sth[t] EXCEPT !.pc = "checked"]
  <2>1. sth[t] \in SourceThread /\ SourceThreadOK(sth[t]) /\ sth[t].pc = "notice"
    BY <1>9 DEF TypeInv, NoticeCheck, SIs
  <2>2. r \in SourceThread /\ SourceThreadOK(r) /\ sth[t].n \in Nat
    BY <2>1 DEF SourceThread, SourceThreadOK
  <2>3. SStep(t, r) \/ SStep(t, SIdle)
    BY <1>9 DEF NoticeCheck
  <2>4. answered' \subseteq Envelopes \cup Nat
    BY <1>9, <2>2 DEF NoticeCheck, TypeInv
  <2> QED BY <1>0, <1>9, <2>2, <2>3, <2>4, SIdleTyped, SStepTyped DEF NoticeCheck, TypeInv, receiver
<1>10. ASSUME NEW t \in Senders, NoticeApply(t) PROVE TypeInv'
  <2>1. sth[t].n \in Nat /\ sth[t].w \in Warrants /\ Reviewed(sth[t].d) \in ReviewStates
    BY <1>10, ReviewedTyped
       DEF NoticeApply, TypeInv, SourceThread, SourceThreadOK, SIs, ReviewStates
  <2>2. warrant' \in [Warrants -> [review : ReviewStates, exec : {"ready", "executed"}]]
    BY <1>10, <2>1 DEF NoticeApply, TypeInv
  <2> QED BY <1>0, <1>10, <2>1, <2>2, SIdleTyped, SStepTyped DEF NoticeApply, TypeInv, receiver
<1>11. ASSUME NEW w \in Warrants, NEW d \in Decisions, ReviewSource(w, d) PROVE TypeInv'
  <2>1. Reviewed(d) \in ReviewStates
    BY ReviewedTyped DEF ReviewStates
  <2>2. warrant' \in [Warrants -> [review : ReviewStates, exec : {"ready", "executed"}]]
    BY <1>11, <2>1 DEF ReviewSource, TypeInv
  <2> QED BY <1>0, <1>11, <2>2 DEF ReviewSource, TypeInv, receiver
<1>12. ASSUME CrashSource PROVE TypeInv'
  BY <1>0, <1>12, SIdleTyped DEF CrashSource, TypeInv, receiver
<1> QED
  BY <1>1, <1>2, <1>3, <1>4, <1>5, <1>6, <1>7, <1>8, <1>9, <1>10, <1>11, <1>12
     DEF SourceNext, SenderStep

LEMMA ReceiverTyped ==
    ASSUME TypeInv, ReceiverNext, Watch
    PROVE  TypeInv'
<1>0. shared' \subseteq Warrants /\ hasty' \subseteq Envelopes
  BY DEF TypeInv, Watch
<1> DEFINE Local == [review : ReviewStates \cup {None}, e : Envelopes \cup {None}]
<1> USE HandoffAssumption
<1>a. ASSUME NEW t \in Receivers, NEW i \in LocalIds, NEW d \in Decisions, LocalReview(t, i, d)
      PROVE  /\ lwarrant' \in [LocalIds -> Local]
             /\ rth' \in [Receivers -> ReceiverThread]
             /\ \A u \in Receivers : ReceiverThreadOK(rth'[u])
  <2> DEFINE r == [RIdle EXCEPT !.pc = "reviewed", !.lw = i, !.d = d, !.saw = Reviewed(d)]
  <2>1. Reviewed(d) \in {"approved", "stayed", "revoked"}
    BY ReviewedTyped
  <2>2. i \in 0 .. MaxLocal
    BY DEF LocalIds
  <2>3. r \in ReceiverThread /\ ReceiverThreadOK(r)
    BY <2>1, <2>2 DEF RIdle, ReceiverThread, ReceiverThreadOK, ReviewStates
  <2>4. RStep(t, r)
    BY <1>a DEF LocalReview
  <2>5. lwarrant' \in [LocalIds -> Local]
    BY <1>a, <2>1 DEF LocalReview, TypeInv, ReviewStates
  <2> QED BY <2>3, <2>4, <2>5, RStepTyped
<1>1. ASSUME NEW t \in Receivers, NEW m \in net, RecvValidate(t, m) PROVE TypeInv'
  <2> DEFINE r == [RIdle EXCEPT !.pc = "validated", !.e = m.e, !.w = m.w]
  <2>1. m.e \in Envelopes /\ m.w \in Warrants
    BY <1>1 DEF RecvValidate, TypeInv, Requests, AnyNotices
  <2>2. r \in ReceiverThread /\ ReceiverThreadOK(r)
    BY <2>1, RIdleTyped DEF ReceiverThread, ReceiverThreadOK
  <2>3. RStep(t, r)
    BY <1>1 DEF RecvValidate
  <2> QED BY <1>0, <1>1, <2>2, <2>3, RStepTyped DEF RecvValidate, TypeInv, source
<1>2. ASSUME NEW t \in Receivers, RecvAccept(t) PROVE TypeInv'
  <2> DEFINE r == [rth[t] EXCEPT !.pc = "accepted"]
  <2>1. /\ rth[t] \in ReceiverThread /\ ReceiverThreadOK(rth[t]) /\ rth[t].pc = "validated"
        /\ rth[t].e \in Envelopes
    BY <1>2 DEF TypeInv, RecvAccept, RIs, ReceiverThreadOK
  <2>2. r \in ReceiverThread /\ ReceiverThreadOK(r)
    BY <2>1 DEF ReceiverThread, ReceiverThreadOK
  <2>3. RStep(t, r) /\ rSeen' \subseteq Envelopes
    BY <1>2, <2>1 DEF RecvAccept, TypeInv
  <2> QED BY <1>0, <1>2, <2>2, <2>3, RStepTyped DEF RecvAccept, TypeInv, source
<1>3. ASSUME NEW t \in Receivers, RecvIssue(t) PROVE TypeInv'
  <2> DEFINE e == rth[t].e  r == [rth[t] EXCEPT !.pc = "issued", !.lw = issued + 1]
  <2>1. /\ rth[t] \in ReceiverThread /\ ReceiverThreadOK(rth[t]) /\ rth[t].pc = "accepted"
        /\ e \in Envelopes /\ rth[t].w \in Warrants
    BY <1>3 DEF TypeInv, RecvIssue, RIs, ReceiverThreadOK
  <2>2. answered' \subseteq Envelopes \cup Nat
    BY <1>3, <2>1 DEF RecvIssue, TypeInv
  <2>3. CASE UNCHANGED <<lwarrant, issued, job>> /\ RStep(t, RIdle)
    BY <1>0, <1>3, <2>2, <2>3, RIdleTyped, RStepTyped DEF RecvIssue, TypeInv, source
  <2>4. CASE /\ job' = [job EXCEPT ![e] = BlockedJob(e, rth[t].w)]
             /\ RStep(t, RIdle) /\ UNCHANGED <<lwarrant, issued>>
    <3>1. BlockedJob(e, rth[t].w) \in Job /\ JobOK(BlockedJob(e, rth[t].w))
      <4>1. NoJob \in Job
        BY DEF NoJob, Job, JobStates
      <4> QED BY <2>1, <4>1 DEF BlockedJob, Job, JobOK, JobStates, None
    <3>2. job' \in [Envelopes -> Job] /\ \A f \in Envelopes : JobOK(job'[f])
      BY <2>4, <3>1 DEF TypeInv
    <3> QED BY <1>0, <1>3, <2>2, <2>4, <3>2, RIdleTyped, RStepTyped DEF RecvIssue, TypeInv, source
  <2>5. CASE /\ issued < MaxLocal /\ issued' = issued + 1
             /\ lwarrant' = [lwarrant EXCEPT ![issued + 1] = [review |-> "pending_review", e |-> e]]
             /\ RStep(t, r) /\ UNCHANGED <<job, answered>>
    <3>1. issued + 1 \in LocalIds /\ issued + 1 \in 0 .. MaxLocal
      BY <2>5 DEF TypeInv, LocalIds
    <3>2. r \in ReceiverThread /\ ReceiverThreadOK(r)
      BY <2>1, <3>1 DEF ReceiverThread, ReceiverThreadOK
    <3>3. lwarrant' \in [LocalIds -> Local]
      BY <2>1, <2>5, <3>1 DEF TypeInv, ReviewStates
    <3> QED BY <1>0, <1>3, <2>5, <3>1, <3>2, <3>3, RStepTyped DEF RecvIssue, TypeInv, source
  <2> QED BY <1>3, <2>3, <2>4, <2>5 DEF RecvIssue
<1>4. ASSUME NEW t \in Receivers, RecvQueue(t) PROVE TypeInv'
  <2> DEFINE j == [state |-> "pending_local_warrant", lw |-> rth[t].lw, w |-> rth[t].w, notice |-> None]
  <2>1. rth[t].e \in Envelopes /\ rth[t].w \in Warrants /\ rth[t].lw \in 0 .. MaxLocal
    BY <1>4 DEF TypeInv, RecvQueue, RIs, ReceiverThreadOK, ReceiverThread
  <2>2. j \in Job /\ JobOK(j)
    BY <2>1 DEF Job, JobOK, JobStates, None
  <2>3. job' \in [Envelopes -> Job] /\ \A f \in Envelopes : JobOK(job'[f])
    BY <1>4, <2>2 DEF RecvQueue, TypeInv
  <2> QED BY <1>0, <1>4, <2>1, <2>3, RIdleTyped, RStepTyped DEF RecvQueue, TypeInv, source
<1>5. ASSUME NEW t \in Receivers, NEW i \in LocalIds, NEW d \in Decisions, Review(t, i, d)
      PROVE  TypeInv'
  BY <1>0, <1>5, <1>a DEF Review, TypeInv, source
<1>6. ASSUME NEW t \in Receivers, Sync(t) PROVE TypeInv'
  <2>1. rth[t] \in ReceiverThread /\ ReceiverThreadOK(rth[t]) /\ rth[t].pc = "reviewed"
    BY <1>6 DEF TypeInv, Sync, RIs
  <2>2. CASE RStep(t, RIdle) /\ UNCHANGED job
    BY <1>0, <1>6, <2>2, RIdleTyped, RStepTyped DEF Sync, TypeInv, source
  <2>3. ASSUME NEW e \in JobsOf(rth[t].lw), job' = [job EXCEPT ![e].state = JobStateFor(rth[t].saw)],
               RStep(t, [rth[t] EXCEPT !.pc = "synced", !.e = e, !.w = job[e].w, !.sent = job[e].notice])
        PROVE TypeInv'
    <3> DEFINE r == [rth[t] EXCEPT !.pc = "synced", !.e = e, !.w = job[e].w, !.sent = job[e].notice]
    <3>1. e \in Envelopes /\ job[e] \in Job /\ job[e].w \in Warrants
      BY <2>3 DEF JobsOf, TypeInv, JobOK
    <3>2. r \in ReceiverThread /\ ReceiverThreadOK(r)
      BY <2>1, <3>1 DEF ReceiverThread, ReceiverThreadOK, Job
    <3>3. JobStateFor(rth[t].saw) \in JobStates
      BY <2>1 DEF ReceiverThreadOK, JobStateFor, JobStates
    <3>4. job' \in [Envelopes -> Job] /\ \A f \in Envelopes : JobOK(job'[f])
      BY <2>3, <3>1, <3>3 DEF TypeInv, Job, JobOK, JobStates, None
    <3> QED BY <1>0, <1>6, <2>3, <3>2, <3>4, RStepTyped DEF Sync, TypeInv, source
  <2> QED BY <1>6, <2>2, <2>3 DEF Sync
<1>7. ASSUME NEW t \in Receivers, Notify(t) PROVE TypeInv'
  <2> DEFINE m == [type |-> "court_notice", e |-> rth[t].e, w |-> rth[t].w, n |-> NextNotice,
                   d |-> rth[t].d]
             r == [rth[t] EXCEPT !.pc = "notified", !.n = NextNotice]
  <2>1. /\ rth[t] \in ReceiverThread /\ ReceiverThreadOK(rth[t]) /\ rth[t].pc = "synced"
        /\ rth[t].e \in Envelopes /\ rth[t].w \in Warrants /\ rth[t].d \in Decisions
    BY <1>7 DEF TypeInv, Notify, RIs, ReceiverThreadOK
  <2>2. CASE RStep(t, RIdle) /\ UNCHANGED <<lwarrant, net>>
    BY <1>0, <1>7, <2>2, RIdleTyped, RStepTyped DEF Notify, TypeInv, source
  <2>3. CASE Holdable(peerCase.lw) /\ LocalReview(t, peerCase.lw, "stay") /\ UNCHANGED net
    <3>1. peerCase.lw \in LocalIds /\ "stay" \in Decisions
      BY <2>3 DEF Holdable, TypeInv, LocalIds, Decisions
    <3> QED BY <1>0, <1>7, <1>a, <2>3, <3>1 DEF Notify, TypeInv, source
  <2>4. CASE net' = net \cup {m} /\ RStep(t, r) /\ UNCHANGED lwarrant
    <3>1. NextNotice \in Nat
      <4>1. IsFiniteSet({x \in net : x.type = "court_notice"})
        BY FS_Subset DEF TypeInv
      <4> QED BY <4>1, FS_CardinalityType DEF NextNotice
    <3>2. m \in AnyNotices
      BY <2>1, <3>1 DEF AnyNotices
    <3>3. r \in ReceiverThread /\ ReceiverThreadOK(r)
      BY <2>1, <3>1 DEF ReceiverThread, ReceiverThreadOK
    <3> QED BY <1>0, <1>7, <2>4, <3>2, <3>3, RStepTyped, Posted DEF Notify, TypeInv, source
  <2> QED BY <1>7, <2>2, <2>3, <2>4 DEF Notify
<1>8. ASSUME NEW t \in Receivers, Notified(t) PROVE TypeInv'
  <2>1. rth[t].e \in Envelopes /\ rth[t].d \in Decisions
    BY <1>8 DEF TypeInv, Notified, RIs, ReceiverThreadOK
  <2>2. job' \in [Envelopes -> Job] /\ \A f \in Envelopes : JobOK(job'[f])
    <3> DEFINE e == rth[t].e  j == [job[e] EXCEPT !.notice = rth[t].d]
    <3>1. job[e] \in Job /\ JobOK(job[e])
      BY <2>1 DEF TypeInv
    <3>2. j \in Job /\ JobOK(j)
      BY <2>1, <3>1 DEF Job, JobOK
    <3>3. job' = [job EXCEPT ![e] = j]
      BY <1>8, <2>1 DEF Notified, TypeInv
    <3> QED BY <2>1, <3>2, <3>3 DEF TypeInv
  <2> QED BY <1>0, <1>8, <2>2, RIdleTyped, RStepTyped DEF Notified, TypeInv, source
<1>9. ASSUME NEW t \in Receivers, NotifyFails(t) PROVE TypeInv'
  BY <1>0, <1>9, RIdleTyped, RStepTyped DEF NotifyFails, TypeInv, source
<1>10. ASSUME NEW t \in Receivers, NEW i \in LocalIds \cup {0}, OpenCase(t, i) PROVE TypeInv'
  <2> DEFINE r == [RIdle EXCEPT !.pc = "hold", !.lw = i]
  <2>1. i \in 0 .. MaxLocal
    BY DEF LocalIds
  <2>2. r \in ReceiverThread /\ ReceiverThreadOK(r)
    BY <2>1 DEF RIdle, ReceiverThread, ReceiverThreadOK
  <2>3. RStep(t, r)
    BY <1>10 DEF OpenCase
  <2> QED BY <1>0, <1>10, <2>1, <2>2, <2>3, RStepTyped DEF OpenCase, TypeInv, source
<1>11. ASSUME NEW t \in Receivers, NEW s \in {"stayed", "resolved"}, ReviewCase(t, s) PROVE TypeInv'
  <2> DEFINE r == [RIdle EXCEPT !.pc = "hold", !.lw = peerCase.lw]
  <2>1. r \in ReceiverThread /\ ReceiverThreadOK(r)
    BY DEF RIdle, ReceiverThread, ReceiverThreadOK, TypeInv
  <2>2. RStep(t, r) \/ RStep(t, RIdle)
    BY <1>11 DEF ReviewCase
  <2>3. peerCase' \in [status : {None, "open", "stayed", "resolved"}, lw : 0 .. MaxLocal]
    BY <1>11 DEF ReviewCase, TypeInv
  <2> QED BY <1>0, <1>11, <2>1, <2>2, <2>3, RIdleTyped, RStepTyped DEF ReviewCase, TypeInv, source
<1>12. ASSUME NEW t \in Receivers, Hold(t) PROVE TypeInv'
  <2>1. CASE RStep(t, RIdle) /\ UNCHANGED lwarrant
    BY <1>0, <1>12, <2>1, RIdleTyped, RStepTyped DEF Hold, TypeInv, source
  <2>2. CASE Holdable(rth[t].lw) /\ LocalReview(t, rth[t].lw, "stay")
    <3>1. rth[t].lw \in LocalIds /\ "stay" \in Decisions
      BY <2>2 DEF Holdable, TypeInv, ReceiverThread, LocalIds, Decisions
    <3> QED BY <1>0, <1>12, <1>a, <2>2, <3>1 DEF Hold, TypeInv, source
  <2> QED BY <1>12, <2>1, <2>2 DEF Hold
<1>13. ASSUME CrashReceiver PROVE TypeInv'
  BY <1>0, <1>13, RIdleTyped DEF CrashReceiver, TypeInv, source
<1> QED
  BY <1>1, <1>2, <1>3, <1>4, <1>5, <1>6, <1>7, <1>8, <1>9, <1>10, <1>11, <1>12, <1>13
     DEF ReceiverNext, ReceiverStep

LEMMA StepTyped == TypeInv /\ [Next]_vars => TypeInv'
<1>1. TypeInv /\ UNCHANGED vars => TypeInv'
  BY DEF TypeInv, vars, source, receiver
<1> QED BY <1>1, SourceTyped, ReceiverTyped DEF Next

\* Both hosts keep their stores and threads well typed: a handler that reaches a
\* step holds every field the step reads, a job under a local warrant names the
\* sender warrant its notice is for.
THEOREM Typed == Spec => []TypeInv
BY InitTyped, StepTyped, PTL DEF Spec

(***************************************************************************)
(* Records.                                                                *)
(***************************************************************************)
\* The source host consumes no nonce of a request and answers none; requests stay.
LEMMA SourceFrame ==
    ASSUME TypeInv, SourceNext
    PROVE  /\ UNCHANGED receiver /\ net \subseteq net' /\ answered \subseteq answered'
           /\ answered' \cap Envelopes = answered \cap Envelopes
           /\ lossy' = lossy /\ (crashes' = 0 => crashes = 0)
<1> DEFINE Frame == /\ UNCHANGED receiver /\ net \subseteq net' /\ answered \subseteq answered'
                    /\ answered' \cap Envelopes = answered \cap Envelopes
                    /\ lossy' = lossy /\ (crashes' = 0 => crashes = 0)
<1>1. ASSUME NEW t \in Senders, SenderStep(t) PROVE Frame
  <2>1. sth[t].n \notin Envelopes
    BY HandoffAssumption DEF TypeInv, SourceThread
  <2> QED BY <1>1, <2>1 DEF SenderStep, SendPost, SendAnswered, SendFails, SendMark, SendAudit,
             NoticeCheck, NoticeApply
<1>2. ASSUME NEW t \in Senders, NEW w \in Warrants,
             SendValidate(t, w) \/ FinalizeSenderWarrant(t, w)
      PROVE  Frame
  BY <1>2 DEF SendValidate, FinalizeSenderWarrant
<1>3. ASSUME NEW t \in Senders, NEW m \in net, NoticeAccept(t, m) PROVE Frame
  BY <1>3 DEF NoticeAccept
<1>4. ASSUME NEW w \in Warrants, NEW d \in Decisions, ReviewSource(w, d) PROVE Frame
  BY <1>4 DEF ReviewSource
<1>5. ASSUME CrashSource PROVE Frame
  BY <1>5 DEF CrashSource, TypeInv
<1> QED BY <1>1, <1>2, <1>3, <1>4, <1>5 DEF SourceNext

\* The receiving host leaves the records of the source host alone, posts only
\* notices, and keeps every nonce it has consumed.
LEMMA ReceiverFrame ==
    ASSUME TypeInv, ReceiverNext
    PROVE  /\ UNCHANGED source /\ rSeen \subseteq rSeen' /\ answered \subseteq answered'
           /\ net \subseteq net' /\ \A e \in Envelopes, w \in Warrants : Requested(e, w)' => Requested(e, w)
           /\ lossy' = lossy /\ (crashes' = 0 => crashes = 0)
<1> DEFINE Frame ==
       /\ UNCHANGED source /\ rSeen \subseteq rSeen' /\ answered \subseteq answered'
       /\ net \subseteq net' /\ \A e \in Envelopes, w \in Warrants : Requested(e, w)' => Requested(e, w)
       /\ lossy' = lossy /\ (crashes' = 0 => crashes = 0)
<1>1. ASSUME NEW t \in Receivers, ReceiverStep(t) PROVE Frame
  BY <1>1 DEF ReceiverStep, RecvAccept, RecvIssue, RecvQueue, Hold, Sync, Notify, Notified,
              NotifyFails, LocalReview, RStep, Requested
<1>2. ASSUME NEW t \in Receivers, NEW m \in net, RecvValidate(t, m) PROVE Frame
  BY <1>2 DEF RecvValidate, Requested
<1>3. ASSUME NEW t \in Receivers, NEW i \in LocalIds, NEW d \in Decisions, Review(t, i, d)
      PROVE  Frame
  BY <1>3 DEF Review, Requested
<1>4. ASSUME NEW t \in Receivers, NEW i \in LocalIds \cup {0}, OpenCase(t, i) PROVE Frame
  BY <1>4 DEF OpenCase, Requested
<1>5. ASSUME NEW t \in Receivers, NEW s \in {"stayed", "resolved"}, ReviewCase(t, s) PROVE Frame
  BY <1>5 DEF ReviewCase, Requested
<1>6. ASSUME CrashReceiver PROVE Frame
  BY <1>6 DEF CrashReceiver, Requested, TypeInv
<1> QED BY <1>1, <1>2, <1>3, <1>4, <1>5, <1>6 DEF ReceiverNext, ReceiverStep

\* What a step of the source host does to one of its threads: the thread is the
\* same, or is idle or in one of the places that promise nothing, or has moved
\* on along the delivery.
LEMMA SourceThreadStep ==
    ASSUME TypeInv, SourceNext, NEW t \in Senders
    PROVE  \/ sth'[t] = sth[t]
           \/ sth'[t].pc \in {"idle", "validated", "notice", "checked"}
           \/ sth[t].pc = "validated" /\ sth'[t].pc = "posted" /\ Requested(sth[t].e, sth[t].w)'
           \/ /\ sth[t].pc \in {"posted", "answered"} /\ sth'[t].pc \in {"answered", "marked"}
              /\ sth[t].e \in answered \/ sth[t].pc = "answered"
              /\ sth'[t].e = sth[t].e /\ sth'[t].w = sth[t].w
<1> DEFINE Moved == \/ sth'[t] = sth[t]
                    \/ sth'[t].pc \in {"idle", "validated", "notice", "checked"}
                    \/ /\ sth[t].pc = "validated" /\ sth'[t].pc = "posted"
                       /\ Requested(sth[t].e, sth[t].w)'
                    \/ /\ sth[t].pc \in {"posted", "answered"}
                       /\ sth'[t].pc \in {"answered", "marked"}
                       /\ sth[t].e \in answered \/ sth[t].pc = "answered"
                       /\ sth'[t].e = sth[t].e /\ sth'[t].w = sth[t].w
<1>0. \A u \in Senders : \A r : SStep(u, r) => sth'[t] = IF t = u THEN r ELSE sth[t]
  BY DEF SStep, TypeInv
<1>1. ASSUME NEW u \in Senders, SenderStep(u) PROVE Moved
  <2>0. sth[u] \in SourceThread
    BY DEF TypeInv
  <2>1. ASSUME NEW e \in Envelopes, SendPost(u, e) PROVE Moved
    <3> DEFINE r == [sth[u] EXCEPT !.pc = "posted", !.e = e]
    <3>1. r.pc = "posted" /\ r.e = e /\ r.w = sth[u].w
      BY <2>0 DEF SourceThread
    <3>2. SStep(u, r)
      BY <2>1 DEF SendPost
    <3>3. sth'[t] = IF t = u THEN r ELSE sth[t]
      BY <1>0, <3>2
    <3> QED BY <2>1, <3>1, <3>3 DEF SendPost, SIs, Requested
  <2>2. ASSUME SendAnswered(u) PROVE Moved
    <3>1. SStep(u, [sth[u] EXCEPT !.pc = "answered"])
      BY <2>2 DEF SendAnswered
    <3> QED BY <1>0, <2>0, <2>2, <3>1 DEF SendAnswered, GotReceipt, SIs, SourceThread
  <2>3. ASSUME SendMark(u) PROVE Moved
    <3>1. SStep(u, [sth[u] EXCEPT !.pc = "marked"]) \/ SStep(u, SIdle)
      BY <2>3 DEF SendMark
    <3> QED BY <1>0, <2>0, <2>3, <3>1 DEF SendMark, SIs, SourceThread, SIdle
  <2>4. ASSUME NoticeCheck(u) PROVE Moved
    <3>1. SStep(u, [sth[u] EXCEPT !.pc = "checked"]) \/ SStep(u, SIdle)
      BY <2>4 DEF NoticeCheck
    <3> QED BY <1>0, <2>0, <2>4, <3>1 DEF NoticeCheck, SIs, SourceThread, SIdle
  <2>5. ASSUME SendFails(u) \/ SendAudit(u) \/ NoticeApply(u) PROVE Moved
    BY <1>0, <2>5 DEF SendFails, SendAudit, NoticeApply, SIdle
  <2> QED BY <1>1, <2>1, <2>2, <2>3, <2>4, <2>5 DEF SenderStep
<1>2. ASSUME NEW u \in Senders, NEW w \in Warrants, SendValidate(u, w) PROVE Moved
  <2> DEFINE r == [SIdle EXCEPT !.pc = "validated", !.w = w]
  <2>1. r.pc = "validated"
    BY DEF SIdle
  <2>2. SStep(u, r)
    BY <1>2 DEF SendValidate
  <2> HIDE DEF r
  <2> QED BY <1>0, <2>1, <2>2
<1>3. ASSUME NEW u \in Senders, NEW w \in Warrants, FinalizeSenderWarrant(u, w) PROVE Moved
  BY <1>3 DEF FinalizeSenderWarrant
<1>4. ASSUME NEW u \in Senders, NEW m \in net, NoticeAccept(u, m) PROVE Moved
  BY <1>0, <1>4 DEF NoticeAccept
<1>5. ASSUME NEW w \in Warrants, NEW d \in Decisions, ReviewSource(w, d) PROVE Moved
  BY <1>5 DEF ReviewSource
<1>6. ASSUME CrashSource PROVE Moved
  BY <1>6 DEF CrashSource, SIdle
<1> QED BY <1>1, <1>2, <1>3, <1>4, <1>5, <1>6 DEF SourceNext

\* What a step of the source host adds to its records comes from a thread that
\* was answered, or for a linked warrant from the delivery ref it already has.
LEMMA SourceRecordStep ==
    ASSUME TypeInv, SourceNext
    PROVE  /\ \A w \in Warrants : warrant'[w].exec = "executed" =>
                 \/ warrant[w].exec = "executed"
                 \/ \E e \in Envelopes : <<w, e>> \in refs
                 \/ \E t \in Senders : sth[t].pc = "answered" /\ sth[t].w = w
           /\ \A p \in proof' \cup refs' :
                 \/ p \in proof \cup refs
                 \/ \E t \in Senders : /\ sth[t].pc \in {"answered", "marked"}
                                       /\ p = <<sth[t].w, sth[t].e>>
<1> DEFINE Added ==
       /\ \A w \in Warrants : warrant'[w].exec = "executed" =>
             \/ warrant[w].exec = "executed"
             \/ \E e \in Envelopes : <<w, e>> \in refs
             \/ \E t \in Senders : sth[t].pc = "answered" /\ sth[t].w = w
       /\ \A p \in proof' \cup refs' :
             \/ p \in proof \cup refs
             \/ \E t \in Senders : sth[t].pc \in {"answered", "marked"} /\ p = <<sth[t].w, sth[t].e>>
<1>1. ASSUME UNCHANGED <<warrant, proof, refs>> PROVE Added
  BY <1>1
<1>2. ASSUME NEW t \in Senders, SendMark(t) PROVE Added
  <2>1. CASE refs' = refs \cup {<<sth[t].w, sth[t].e>>} /\ UNCHANGED <<warrant, proof>>
    BY <1>2, <2>1 DEF SendMark, SIs
  <2>2. CASE warrant' = [warrant EXCEPT ![sth[t].w].exec = "executed"] /\ UNCHANGED <<refs, proof>>
    BY <1>2, <2>2 DEF SendMark, SIs, TypeInv
  <2> QED BY <1>1, <1>2, <2>1, <2>2 DEF SendMark
<1>3. ASSUME NEW t \in Senders, SendAudit(t) PROVE Added
  BY <1>3 DEF SendAudit, SIs
<1>4. ASSUME NEW t \in Senders, NEW w \in Warrants, FinalizeSenderWarrant(t, w) PROVE Added
  BY <1>4 DEF FinalizeSenderWarrant, TypeInv
<1>5. ASSUME NEW w \in Warrants, NEW d \in Decisions,
             warrant' = [warrant EXCEPT ![w].review = Reviewed(d)], UNCHANGED <<proof, refs>>
      PROVE  Added
  BY <1>5 DEF TypeInv
<1>6. ASSUME NEW t \in Senders, SenderStep(t) PROVE Added
  <2>1. ASSUME NoticeApply(t) PROVE Added
    <3>1. sth[t].w \in Warrants /\ sth[t].d \in Decisions
      BY <2>1 DEF NoticeApply, SIs, TypeInv, SourceThreadOK
    <3> QED BY <1>5, <2>1, <3>1 DEF NoticeApply
  <2> QED BY <1>1, <1>2, <1>3, <1>6, <2>1
          DEF SenderStep, SendPost, SendAnswered, SendFails, NoticeCheck
<1> QED BY <1>1, <1>4, <1>5, <1>6 DEF SourceNext, SendValidate, NoticeAccept, ReviewSource, CrashSource

LEMMA SourceRecords ==
    ASSUME TypeInv, RecordsInv, SourceNext
    PROVE  RecordsInv'
<1>1. /\ UNCHANGED <<rSeen, rth>> /\ net \subseteq net' /\ answered \subseteq answered'
      /\ answered' \cap Envelopes = answered \cap Envelopes
  BY SourceFrame DEF receiver
<1>2. /\ \A e \in Envelopes : e \in answered' => e \in rSeen'
      /\ \A t \in Receivers : rth'[t].pc \in {"accepted", "issued"} => rth'[t].e \in rSeen'
  BY <1>1 DEF RecordsInv
<1>3. ASSUME NEW t \in Senders
      PROVE  /\ sth'[t].pc \in {"posted", "answered", "marked"} => Requested(sth[t].e, sth[t].w)'
             /\ sth'[t].pc \in {"answered", "marked"} => sth'[t].e \in answered'
  <2>1. /\ sth[t].pc \in {"posted", "answered", "marked"} => Requested(sth[t].e, sth[t].w)
        /\ sth[t].pc \in {"answered", "marked"} => sth[t].e \in answered
    BY DEF RecordsInv
  <2> QED BY <1>1, <2>1, SourceThreadStep DEF Requested
<1>4. \A e, w : Received(e, w) => Received(e, w)'
  BY <1>1 DEF Received, Requested
<1>5. ASSUME NEW t \in Senders, sth[t].pc \in {"answered", "marked"}
      PROVE  sth[t].e \in Envelopes /\ Received(sth[t].e, sth[t].w)
  BY <1>5 DEF RecordsInv, Received, TypeInv, SourceThreadOK
<1>6. ASSUME NEW p \in proof' \cup refs' PROVE Received(p[2], p[1])'
  <2>1. CASE p \in proof \cup refs
    BY <1>4, <2>1 DEF RecordsInv, ExecutedWasReceived
  <2>2. ASSUME NEW t \in Senders, sth[t].pc \in {"answered", "marked"}, p = <<sth[t].w, sth[t].e>>
        PROVE  Received(p[2], p[1])'
    BY <1>4, <1>5, <2>2
  <2> QED BY <2>1, <2>2, SourceRecordStep
<1>7. ASSUME NEW w \in Warrants \ Linked, warrant'[w].exec = "executed"
      PROVE  \E e \in Envelopes : Received(e, w)'
  <2>1. CASE warrant[w].exec = "executed"
    BY <1>4, <2>1 DEF RecordsInv, ExecutedWasReceived
  <2>2. ASSUME NEW t \in Senders, sth[t].pc = "answered", sth[t].w = w
        PROVE  \E e \in Envelopes : Received(e, w)'
    BY <1>4, <1>5, <2>2
  <2>3. \A e \in Envelopes : <<w, e>> \notin refs
    BY DEF TypeInv
  <2> QED BY <1>7, <2>1, <2>2, <2>3, SourceRecordStep
<1>8. ExecutedWasReceived'
  BY <1>6, <1>7 DEF ExecutedWasReceived
<1> QED BY <1>2, <1>3, <1>8 DEF RecordsInv

LEMMA ReceiverRecords ==
    ASSUME TypeInv, RecordsInv, ReceiverNext
    PROVE  RecordsInv'
<1>1. /\ UNCHANGED <<warrant, proof, refs, sth>> /\ rSeen \subseteq rSeen'
      /\ answered \subseteq answered' /\ net \subseteq net'
  BY ReceiverFrame DEF source
<1>2. \A e, w : Received(e, w) => Received(e, w)'
  BY <1>1 DEF Received, Requested
<1>3. ExecutedWasReceived'
  BY <1>1, <1>2 DEF RecordsInv, ExecutedWasReceived
<1>4. \A t \in Senders :
         /\ sth'[t].pc \in {"posted", "answered", "marked"} => Requested(sth[t].e, sth[t].w)'
         /\ sth'[t].pc \in {"answered", "marked"} => sth'[t].e \in answered'
  BY <1>1 DEF RecordsInv, Requested
<1> DEFINE Nonces == /\ \A e \in Envelopes : e \in answered' => e \in rSeen'
                     /\ \A t \in Receivers :
                           rth'[t].pc \in {"accepted", "issued"} => rth'[t].e \in rSeen'
<1>5. ASSUME NEW t \in Receivers, NEW r, RStep(t, r), rSeen \subseteq rSeen',
             r.pc \in {"accepted", "issued"} => r.e \in rSeen',
             answered' \subseteq answered \cup rSeen'
      PROVE  Nonces
  BY <1>5 DEF RStep, RecordsInv, TypeInv
<1>6. ASSUME NEW t \in Receivers, ReceiverStep(t) PROVE Nonces
  <2>0. rth[t] \in ReceiverThread
    BY DEF TypeInv
  <2>1. ASSUME RecvAccept(t) PROVE Nonces
    <3> DEFINE r == [rth[t] EXCEPT !.pc = "accepted"]
    <3>1. r.e = rth[t].e
      BY <2>0 DEF ReceiverThread
    <3>2. RStep(t, r) /\ r.e \in rSeen' /\ rSeen \subseteq rSeen' /\ answered' = answered
      BY <2>1, <3>1 DEF RecvAccept
    <3> HIDE DEF r
    <3> QED BY <1>5, <3>2
  <2>2. ASSUME RecvIssue(t) PROVE Nonces
    <3> DEFINE r == [rth[t] EXCEPT !.pc = "issued", !.lw = issued + 1]
    <3>1. r.e = rth[t].e /\ rth[t].e \in rSeen
      BY <2>0, <2>2 DEF ReceiverThread, RecvIssue, RIs, RecordsInv
    <3>2. rSeen' = rSeen /\ answered' \subseteq answered \cup rSeen'
      BY <2>2, <3>1 DEF RecvIssue
    <3>3. RStep(t, r) \/ RStep(t, RIdle)
      BY <2>2 DEF RecvIssue
    <3>4. RIdle.pc = "idle"
      BY DEF RIdle
    <3> HIDE DEF r
    <3> QED BY <1>5, <3>1, <3>2, <3>3, <3>4
  <2>3. ASSUME RecvQueue(t) PROVE Nonces
    BY <1>5, <2>3 DEF RecvQueue, RIs, RIdle, RecordsInv
  <2>4. ASSUME RStep(t, RIdle), UNCHANGED <<rSeen, answered>> PROVE Nonces
    BY <1>5, <2>4 DEF RIdle
  <2>5. ASSUME NEW i, LocalReview(t, i, "stay"), UNCHANGED <<rSeen, answered>> PROVE Nonces
    BY <1>5, <2>5 DEF LocalReview, RIdle
  <2>6. ASSUME Hold(t) PROVE Nonces
    BY <2>4, <2>5, <2>6 DEF Hold
  <2>7. ASSUME Sync(t) PROVE Nonces
    <3>1. ASSUME NEW e, RStep(t, [rth[t] EXCEPT !.pc = "synced", !.e = e, !.w = job[e].w,
                                              !.sent = job[e].notice])
          PROVE  Nonces
      <4> DEFINE r == [rth[t] EXCEPT !.pc = "synced", !.e = e, !.w = job[e].w, !.sent = job[e].notice]
      <4>1. r.pc = "synced"
        BY <2>0 DEF ReceiverThread
      <4> QED BY <1>5, <2>7, <3>1, <4>1 DEF Sync
    <3> QED BY <2>4, <2>7, <3>1 DEF Sync
  <2>8. ASSUME Notify(t) PROVE Nonces
    <3>1. ASSUME RStep(t, [rth[t] EXCEPT !.pc = "notified", !.n = NextNotice]) PROVE Nonces
      <4> DEFINE r == [rth[t] EXCEPT !.pc = "notified", !.n = NextNotice]
      <4>1. r.pc = "notified"
        BY <2>0 DEF ReceiverThread
      <4> QED BY <1>5, <2>8, <3>1, <4>1 DEF Notify
    <3> QED BY <2>4, <2>5, <2>8, <3>1 DEF Notify
  <2>9. ASSUME Notified(t) \/ NotifyFails(t) PROVE Nonces
    BY <2>4, <2>9 DEF Notified, NotifyFails
  <2> QED BY <1>6, <2>1, <2>2, <2>3, <2>6, <2>7, <2>8, <2>9 DEF ReceiverStep
<1>7. ASSUME NEW t \in Receivers, NEW m \in net, RecvValidate(t, m) PROVE Nonces
  <2> DEFINE r == [RIdle EXCEPT !.pc = "validated", !.e = m.e, !.w = m.w]
  <2>1. r.pc = "validated"
    BY DEF RIdle
  <2> QED BY <1>5, <1>7, <2>1 DEF RecvValidate
<1>8. ASSUME NEW t \in Receivers, NEW i \in LocalIds, NEW d \in Decisions, Review(t, i, d)
      PROVE  Nonces
  BY <1>5, <1>8 DEF Review, LocalReview, RIdle
<1>9. ASSUME NEW t \in Receivers, NEW i \in LocalIds \cup {0}, OpenCase(t, i) PROVE Nonces
  BY <1>5, <1>9 DEF OpenCase, RIdle
<1>10. ASSUME NEW t \in Receivers, NEW s \in {"stayed", "resolved"}, ReviewCase(t, s) PROVE Nonces
  <2> DEFINE r == [RIdle EXCEPT !.pc = "hold", !.lw = peerCase.lw]
  <2>1. r.pc = "hold" /\ RIdle.pc = "idle"
    BY DEF RIdle
  <2>2. RStep(t, r) \/ RStep(t, RIdle)
    BY <1>10 DEF ReviewCase
  <2>3. UNCHANGED <<rSeen, answered>>
    BY <1>10 DEF ReviewCase
  <2> HIDE DEF r
  <2> QED BY <1>5, <2>1, <2>2, <2>3
<1>11. ASSUME CrashReceiver PROVE Nonces
  BY <1>11 DEF CrashReceiver, RIdle, RecordsInv
<1> QED BY <1>3, <1>4, <1>6, <1>7, <1>8, <1>9, <1>10, <1>11 DEF ReceiverNext, RecordsInv

LEMMA StepRecords == TypeInv /\ RecordsInv /\ [Next]_vars => RecordsInv'
<1>1. RecordsInv /\ UNCHANGED vars => RecordsInv'
  BY DEF RecordsInv, ExecutedWasReceived, Received, Requested, vars, source, receiver
<1> QED BY <1>1, SourceRecords, ReceiverRecords DEF Next

LEMMA InitRecords == Init => RecordsInv
<1> SUFFICES ASSUME Init PROVE RecordsInv
  OBVIOUS
<1>1. \A w \in Warrants : warrant[w].exec = "ready"
  BY DEF Init
<1> QED BY <1>1 DEF Init, RecordsInv, ExecutedWasReceived, SIdle, RIdle

\* No record runs ahead of the delivery: a warrant the source host has marked
\* executed, a delivery ref and an outbound proof each stand for a request whose
\* nonce the receiving host consumed, whatever is lost, repeated or crashes.
THEOREM NoRecordAhead == Spec => []ExecutedWasReceived
<1>1. Spec => []RecordsInv
  BY InitRecords, StepRecords, Typed, PTL DEF Spec
<1>2. RecordsInv => ExecutedWasReceived
  BY DEF RecordsInv
<1> QED BY <1>1, <1>2, PTL

(***************************************************************************)
(* One execution for one warrant.                                          *)
(***************************************************************************)
\* A thread of the receiving host that holds a request has held it, or has just
\* read it from the network; a job has been stored, or is the request of such a thread.
LEMMA ReceiverThreadStep ==
    ASSUME TypeInv, ReceiverNext, NEW t \in Receivers
    PROVE  \/ rth'[t].pc \notin {"validated", "accepted", "issued"}
           \/ rth'[t] = rth[t]
           \/ rth'[t].e \in Envelopes /\ rth'[t].w \in Warrants /\ Requested(rth[t].e, rth[t].w)'
           \/ /\ rth[t].pc \in {"validated", "accepted"}
              /\ rth'[t].e = rth[t].e /\ rth'[t].w = rth[t].w
<1> DEFINE Moved == \/ rth'[t].pc \notin {"validated", "accepted", "issued"}
                    \/ rth'[t] = rth[t]
                    \/ /\ rth'[t].e \in Envelopes /\ rth'[t].w \in Warrants
                       /\ Requested(rth[t].e, rth[t].w)'
                    \/ /\ rth[t].pc \in {"validated", "accepted"}
                       /\ rth'[t].e = rth[t].e /\ rth'[t].w = rth[t].w
<1>0. \A u \in Receivers : \A r : RStep(u, r) => rth'[t] = IF t = u THEN r ELSE rth[t]
  BY DEF RStep, TypeInv
<1>a. ASSUME NEW u \in Receivers, NEW r, RStep(u, r), r.pc \notin {"validated", "accepted", "issued"}
      PROVE  Moved
  BY <1>0, <1>a
<1>b. ASSUME NEW u \in Receivers, NEW r, RStep(u, r), rth[u].pc \in {"validated", "accepted"},
             r.e = rth[u].e, r.w = rth[u].w
      PROVE  Moved
  BY <1>0, <1>b
<1>c. RIdle.pc = "idle"
  BY DEF RIdle
<1>d. ASSUME NEW u \in Receivers, NEW i, NEW d, LocalReview(u, i, d) PROVE Moved
  <2> DEFINE r == [RIdle EXCEPT !.pc = "reviewed", !.lw = i, !.d = d, !.saw = Reviewed(d)]
  <2>1. RStep(u, r) /\ r.pc = "reviewed"
    BY <1>d DEF LocalReview, RIdle
  <2> HIDE DEF r
  <2> QED BY <1>a, <2>1
<1> HIDE DEF Moved
<1>1. ASSUME NEW u \in Receivers, ReceiverStep(u) PROVE Moved
  <2>0. rth[u] \in ReceiverThread
    BY DEF TypeInv
  <2>1. ASSUME RecvAccept(u) PROVE Moved
    <3> DEFINE r == [rth[u] EXCEPT !.pc = "accepted"]
    <3>1. r.e = rth[u].e /\ r.w = rth[u].w
      BY <2>0 DEF ReceiverThread
    <3>2. RStep(u, r) /\ rth[u].pc = "validated"
      BY <2>1 DEF RecvAccept, RIs
    <3> HIDE DEF r
    <3> QED BY <1>b, <3>1, <3>2
  <2>2. ASSUME RecvIssue(u) PROVE Moved
    <3> DEFINE r == [rth[u] EXCEPT !.pc = "issued", !.lw = issued + 1]
    <3>1. r.e = rth[u].e /\ r.w = rth[u].w
      BY <2>0 DEF ReceiverThread
    <3>2. (RStep(u, r) \/ RStep(u, RIdle)) /\ rth[u].pc = "accepted"
      BY <2>2 DEF RecvIssue, RIs
    <3> HIDE DEF r
    <3> QED BY <1>a, <1>b, <1>c, <3>1, <3>2
  <2>3. ASSUME Sync(u) PROVE Moved
    <3>1. ASSUME NEW e, RStep(u, [rth[u] EXCEPT !.pc = "synced", !.e = e, !.w = job[e].w,
                                              !.sent = job[e].notice])
          PROVE  Moved
      <4> DEFINE r == [rth[u] EXCEPT !.pc = "synced", !.e = e, !.w = job[e].w, !.sent = job[e].notice]
      <4>1. r.pc = "synced" /\ RStep(u, r)
        BY <2>0, <3>1 DEF ReceiverThread
      <4> HIDE DEF r
      <4> QED BY <1>a, <4>1
    <3> QED BY <1>a, <1>c, <2>3, <3>1 DEF Sync
  <2>4. ASSUME Notify(u) PROVE Moved
    <3>1. ASSUME RStep(u, [rth[u] EXCEPT !.pc = "notified", !.n = NextNotice]) PROVE Moved
      <4> DEFINE r == [rth[u] EXCEPT !.pc = "notified", !.n = NextNotice]
      <4>1. r.pc = "notified" /\ RStep(u, r)
        BY <2>0, <3>1 DEF ReceiverThread
      <4> HIDE DEF r
      <4> QED BY <1>a, <4>1
    <3> QED BY <1>a, <1>c, <1>d, <2>4, <3>1 DEF Notify
  <2>5. ASSUME RecvQueue(u) \/ Hold(u) \/ Notified(u) \/ NotifyFails(u) PROVE Moved
    BY <1>a, <1>c, <1>d, <2>5 DEF RecvQueue, Hold, Notified, NotifyFails
  <2> QED BY <1>1, <2>1, <2>2, <2>3, <2>4, <2>5 DEF ReceiverStep
<1>2. ASSUME NEW u \in Receivers, NEW m \in net, RecvValidate(u, m) PROVE Moved
  <2> DEFINE r == [RIdle EXCEPT !.pc = "validated", !.e = m.e, !.w = m.w]
  <2>1. r.e = m.e /\ r.w = m.w /\ RStep(u, r) /\ net' = net /\ m.type = "execution_request"
    BY <1>2 DEF RecvValidate, RIdle
  <2>2. m.e \in Envelopes /\ m.w \in Warrants
        /\ m = [type |-> "execution_request", e |-> m.e, w |-> m.w]
    BY <2>1 DEF TypeInv, Requests, AnyNotices
  <2> HIDE DEF r
  <2> QED BY <1>0, <2>1, <2>2 DEF Moved, Requested
<1>3. ASSUME NEW u \in Receivers, NEW i \in LocalIds, NEW d \in Decisions, Review(u, i, d)
      PROVE  Moved
  BY <1>d, <1>3 DEF Review
<1>4. ASSUME NEW u \in Receivers, NEW i \in LocalIds \cup {0}, OpenCase(u, i) PROVE Moved
  <2> DEFINE r == [RIdle EXCEPT !.pc = "hold", !.lw = i]
  <2>1. RStep(u, r) /\ r.pc = "hold"
    BY <1>4 DEF OpenCase, RIdle
  <2> HIDE DEF r
  <2> QED BY <1>a, <2>1
<1>5. ASSUME NEW u \in Receivers, NEW s \in {"stayed", "resolved"}, ReviewCase(u, s) PROVE Moved
  <2> DEFINE r == [RIdle EXCEPT !.pc = "hold", !.lw = peerCase.lw]
  <2>1. (RStep(u, r) \/ RStep(u, RIdle)) /\ r.pc = "hold"
    BY <1>5 DEF ReviewCase, RIdle
  <2> HIDE DEF r
  <2> QED BY <1>a, <1>c, <2>1
<1>6. ASSUME CrashReceiver PROVE Moved
  BY <1>6 DEF CrashReceiver, RIdle, Moved
<1> QED BY <1>1, <1>2, <1>3, <1>4, <1>5, <1>6 DEF ReceiverNext, Moved

LEMMA JobStep ==
    ASSUME TypeInv, ReceiverNext, NEW e \in Envelopes, job'[e].state # None
    PROVE  \/ job[e].state # None /\ job'[e].w = job[e].w
           \/ \E t \in Receivers : /\ rth[t].pc \in {"accepted", "issued"}
                                   /\ rth[t].e = e /\ job'[e].w = rth[t].w
<1> DEFINE Stored == \/ job[e].state # None /\ job'[e].w = job[e].w
                     \/ \E t \in Receivers : /\ rth[t].pc \in {"accepted", "issued"}
                                             /\ rth[t].e = e /\ job'[e].w = rth[t].w
<1>1. ASSUME UNCHANGED job PROVE Stored
  BY <1>1
<1>2. ASSUME NEW t \in Receivers, RecvIssue(t) PROVE Stored
  <2>1. CASE job' = [job EXCEPT ![rth[t].e] = BlockedJob(rth[t].e, rth[t].w)]
    <3>1. BlockedJob(rth[t].e, rth[t].w).w = rth[t].w
      BY DEF BlockedJob, NoJob
    <3> QED BY <1>2, <2>1, <3>1 DEF RecvIssue, RIs, TypeInv
  <2> QED BY <1>1, <1>2, <2>1 DEF RecvIssue
<1>3. ASSUME NEW t \in Receivers, RecvQueue(t) PROVE Stored
  BY <1>3 DEF RecvQueue, RIs, TypeInv
<1>4. ASSUME NEW t \in Receivers, Sync(t) PROVE Stored
  <2>1. ASSUME NEW f \in JobsOf(rth[t].lw), job' = [job EXCEPT ![f].state = JobStateFor(rth[t].saw)]
        PROVE  Stored
    <3>1. f \in Envelopes /\ job[f].state # None
      BY <2>1 DEF JobsOf, TypeInv, JobOK
    <3>2. job[e] \in Job /\ job'[e].w = job[e].w
      BY <2>1, <3>1 DEF TypeInv, Job
    <3> QED BY <2>1, <3>1, <3>2 DEF TypeInv
  <2> QED BY <1>1, <1>4, <2>1 DEF Sync
<1>5. ASSUME NEW t \in Receivers, Notified(t) PROVE Stored
  <2>1. job[e] \in Job
    BY DEF TypeInv
  <2> QED BY <1>5, <2>1 DEF Notified, TypeInv, Job
<1>6. ASSUME NEW t \in Receivers, ReceiverStep(t) PROVE Stored
  BY <1>1, <1>2, <1>3, <1>4, <1>5, <1>6 DEF ReceiverStep, RecvAccept, Hold, Notify, NotifyFails
<1> QED BY <1>1, <1>6 DEF ReceiverNext, RecvValidate, Review, OpenCase, ReviewCase, CrashReceiver

LEMMA StepJobs == TypeInv /\ JobsRequested /\ [Next]_vars => JobsRequested'
<1>1. JobsRequested /\ UNCHANGED vars => JobsRequested'
  BY DEF JobsRequested, Requested, vars, receiver
<1>2. ASSUME TypeInv, JobsRequested, SourceNext PROVE JobsRequested'
  <2>1. UNCHANGED <<job, rth>> /\ net \subseteq net'
    BY <1>2, SourceFrame DEF receiver
  <2> QED BY <1>2, <2>1 DEF JobsRequested, Requested
<1>3. ASSUME TypeInv, JobsRequested, ReceiverNext PROVE JobsRequested'
  <2>1. \A e, w : Requested(e, w) => Requested(e, w)'
    BY <1>3, ReceiverFrame DEF Requested
  <2>2. ASSUME NEW t \in Receivers, rth'[t].pc \in {"validated", "accepted", "issued"}
        PROVE  Requested(rth[t].e, rth[t].w)'
    BY <1>3, <2>1, <2>2, ReceiverThreadStep DEF JobsRequested, Requested
  <2>3. ASSUME NEW e \in Envelopes, job'[e].state # None
        PROVE  [type |-> "execution_request", e |-> e, w |-> job'[e].w] \in net'
    BY <1>3, <2>1, <2>3, JobStep DEF JobsRequested, Requested
  <2> QED BY <2>2, <2>3 DEF JobsRequested, Requested
<1> QED BY <1>1, <1>2, <1>3 DEF Next

\* A step of a thread that delivers w neither before nor after it changes
\* nothing of what is known of w.
LEMMA Away ==
    ASSUME TypeInv, NEW w, OneDelivery(w), OneHolder(w)', NEW t \in Senders, NEW r, SStep(t, r),
           ~Holds(sth[t], w), ~Holds(r, w), (warrant[w].exec = "executed" \/ warrant[w].exec = "ready"),
           warrant'[w].exec = warrant[w].exec,
           \A e \in Envelopes : Requested(e, w)' => Requested(e, w)
    PROVE  OneDelivery(w)'
<1>1. \A u \in Senders : sth'[u] = IF u = t THEN r ELSE sth[u]
  BY DEF SStep, TypeInv
<1>2. HeldIsReady(w)'
  BY <1>1 DEF OneDelivery, HeldIsReady
<1>3. RequestHeld(w)'
  <2> SUFFICES ASSUME NEW e \in Envelopes, Requested(e, w)', warrant'[w].exec # "executed"
               PROVE  \E u \in Senders : Delivers(u, e, w)'
    BY DEF RequestHeld
  <2>1. PICK u \in Senders : Delivers(u, e, w)
    BY DEF OneDelivery, RequestHeld
  <2>2. u # t
    BY <2>1 DEF Delivers, Holds
  <2> QED BY <1>1, <2>1, <2>2 DEF Delivers
<1>4. OneRequest(w)'
  BY DEF OneDelivery, OneRequest
<1>5. NotYetPosted(w)'
  BY <1>1 DEF OneDelivery, NotYetPosted, Holds
<1> QED BY <1>2, <1>3, <1>4, <1>5 DEF OneDelivery

\* No two threads hold a warrant that stays out of shared.
LEMMA WatchedHolder ==
    ASSUME NEW w \in Warrants, Watch, w \notin shared'
    PROVE  OneHolder(w)' /\ w \notin shared
BY DEF Watch, OneHolder

LEMMA SourceSingle ==
    ASSUME TypeInv, SourceNext, Calm', NEW w \in Warrants \ Linked, OneDelivery(w), OneHolder(w)'
    PROVE  OneDelivery(w)'
<1>0. \A u \in Senders : sth[u] \in SourceThread /\ SourceThreadOK(sth[u])
  BY DEF TypeInv
<1>a. warrant[w].exec = "executed" \/ warrant[w].exec = "ready"
  BY DEF TypeInv
<1>b. SIdle.pc = "idle"
  BY DEF SIdle
<1>1. ASSUME NEW t \in Senders, NEW v \in Warrants, SendValidate(t, v) PROVE OneDelivery(w)'
  <2> DEFINE r == [SIdle EXCEPT !.pc = "validated", !.w = v]
  <2>1. /\ r.pc = "validated" /\ r.w = v /\ SStep(t, r) /\ sth[t].pc = "idle"
        /\ UNCHANGED <<warrant, net>> /\ warrant[v].exec = "ready"
    BY <1>1 DEF SendValidate, SIdle, SIs, Executable
  <2> HIDE DEF r
  <2>2. \A u \in Senders : sth'[u] = IF u = t THEN r ELSE sth[u]
    BY <2>1 DEF SStep, TypeInv
  <2>3. CASE v # w
    BY <1>a, <2>1, <2>3, Away DEF Holds, Requested
  <2>4. CASE v = w
    <3>1. ASSUME NEW e \in Envelopes, Requested(e, w) PROVE FALSE
      <4>1. PICK u \in Senders : Delivers(u, e, w)
        BY <2>1, <2>4, <3>1 DEF OneDelivery, RequestHeld
      <4>2. u # t /\ sth'[u] = sth[u]
        BY <2>1, <2>2, <4>1 DEF Delivers
      <4>3. Holds(sth'[u], w) /\ Holds(sth'[t], w)
        BY <2>1, <2>2, <2>4, <4>1, <4>2 DEF Delivers, Holds
      <4> QED BY <4>2, <4>3 DEF OneHolder
    <3>2. \A e \in Envelopes : ~Requested(e, w)'
      BY <2>1, <3>1 DEF Requested
    <3>3. HeldIsReady(w)'
      BY <2>1, <2>4 DEF HeldIsReady
    <3> QED BY <3>2, <3>3 DEF OneDelivery, RequestHeld, OneRequest, NotYetPosted
  <2> QED BY <2>3, <2>4
<1>2. ASSUME NEW t \in Senders, NEW e \in Envelopes, SendPost(t, e) PROVE OneDelivery(w)'
  <2> DEFINE r == [sth[t] EXCEPT !.pc = "posted", !.e = e]
  <2>1. /\ r.pc = "posted" /\ r.w = sth[t].w /\ r.e = e /\ SStep(t, r) /\ sth[t].pc = "validated"
        /\ UNCHANGED warrant
        /\ net' = net \cup {[type |-> "execution_request", e |-> e, w |-> sth[t].w]}
    BY <1>0, <1>2 DEF SendPost, SIs, SourceThread
  <2> HIDE DEF r
  <2>2. \A u \in Senders : sth'[u] = IF u = t THEN r ELSE sth[u]
    BY <2>1 DEF SStep, TypeInv
  <2>3. CASE sth[t].w # w
    <3>1. \A f \in Envelopes : Requested(f, w)' => Requested(f, w)
      BY <2>1, <2>3 DEF Requested
    <3> QED BY <1>a, <2>1, <2>3, <3>1, Away DEF Holds
  <2>4. CASE sth[t].w = w
    <3>1. \A f \in Envelopes : Requested(f, w)' => f = e
      BY <2>1, <2>4 DEF OneDelivery, NotYetPosted, Requested
    <3>2. HeldIsReady(w)'
      BY <2>1, <2>2, <2>4 DEF OneDelivery, HeldIsReady, Holds
    <3>3. Delivers(t, e, w)'
      BY <2>1, <2>2, <2>4 DEF Delivers
    <3>4. \A u \in Senders : sth'[u].pc = "validated" => sth'[u].w # w
      BY <2>1, <2>2, <2>4 DEF OneDelivery, OneHolder, Holds
    <3>5. RequestHeld(w)' /\ OneRequest(w)'
      BY <3>1, <3>3 DEF RequestHeld, OneRequest
    <3>6. NotYetPosted(w)'
      BY <3>4 DEF NotYetPosted
    <3> QED BY <3>2, <3>5, <3>6 DEF OneDelivery
  <2> QED BY <2>3, <2>4
<1>3. ASSUME NEW t \in Senders, SendAnswered(t) PROVE OneDelivery(w)'
  <2> DEFINE r == [sth[t] EXCEPT !.pc = "answered"]
  <2>1. /\ r.pc = "answered" /\ r.w = sth[t].w /\ r.e = sth[t].e /\ SStep(t, r)
        /\ sth[t].pc = "posted" /\ UNCHANGED <<warrant, net>>
    BY <1>0, <1>3 DEF SendAnswered, SIs, SourceThread
  <2> HIDE DEF r
  <2>2. \A u \in Senders : sth'[u] = IF u = t THEN r ELSE sth[u]
    BY <2>1 DEF SStep, TypeInv
  <2>3. \A u \in Senders : \A e : Delivers(u, e, w) => Delivers(u, e, w)'
    BY <2>1, <2>2 DEF Delivers
  <2>4. \A u \in Senders : Holds(sth'[u], w) => Holds(sth[u], w)
    BY <2>1, <2>2 DEF Holds
  <2>5. HeldIsReady(w)'
    BY <2>1, <2>4 DEF OneDelivery, HeldIsReady
  <2>6. RequestHeld(w)'
    BY <2>1, <2>3 DEF OneDelivery, RequestHeld, Requested
  <2>7. OneRequest(w)' /\ NotYetPosted(w)'
    BY <2>1, <2>2 DEF OneDelivery, OneRequest, NotYetPosted, Requested
  <2> QED BY <2>5, <2>6, <2>7 DEF OneDelivery
<1>4. ASSUME NEW t \in Senders, SendMark(t) PROVE OneDelivery(w)'
  <2> DEFINE r == [sth[t] EXCEPT !.pc = "marked"]
  <2>1. r.pc = "marked" /\ sth[t].pc = "answered" /\ UNCHANGED net
    BY <1>0, <1>4 DEF SendMark, SIs, SourceThread
  <2>2. SStep(t, r) \/ SStep(t, SIdle)
    BY <1>4 DEF SendMark
  <2> HIDE DEF r
  <2>3. CASE sth[t].w # w
    <3>1. warrant'[w].exec = warrant[w].exec
      BY <1>4, <2>3 DEF SendMark, TypeInv
    <3> QED BY <1>a, <1>b, <2>1, <2>2, <2>3, <3>1, Away DEF Holds, Requested
  <2>4. CASE sth[t].w = w
    <3>1. warrant[w].exec = "ready"
      BY <2>1, <2>4 DEF OneDelivery, HeldIsReady, Holds
    <3>2. warrant' = [warrant EXCEPT ![w].exec = "executed"]
      BY <1>4, <2>4, <3>1 DEF SendMark
    <3>3. warrant'[w].exec = "executed"
      BY <3>2 DEF TypeInv
    <3>4. \A u \in Senders : ~Holds(sth'[u], w)
      BY <1>b, <2>1, <2>2, <2>4 DEF OneDelivery, OneHolder, Holds, SStep, TypeInv
    <3>5. HeldIsReady(w)' /\ RequestHeld(w)'
      BY <3>3, <3>4 DEF HeldIsReady, RequestHeld
    <3>6. OneRequest(w)' /\ NotYetPosted(w)'
      BY <2>1, <3>4 DEF OneDelivery, OneRequest, NotYetPosted, Requested, Holds
    <3> QED BY <3>5, <3>6 DEF OneDelivery
  <2> QED BY <2>3, <2>4
<1>5. ASSUME NEW t \in Senders, SendAudit(t) PROVE OneDelivery(w)'
  BY <1>a, <1>b, <1>5, Away DEF SendAudit, SIs, Holds, Requested
<1>6. ASSUME NEW t \in Senders, NEW v \in Warrants, FinalizeSenderWarrant(t, v) PROVE OneDelivery(w)'
  <2>1. v # w
    BY <1>6 DEF FinalizeSenderWarrant, TypeInv
  <2>2. UNCHANGED <<sth, net>> /\ warrant'[w] = warrant[w]
    BY <1>6, <2>1 DEF FinalizeSenderWarrant, TypeInv
  <2> QED BY <2>2 DEF OneDelivery, OneHolder, HeldIsReady, RequestHeld, OneRequest, NotYetPosted,
                      Holds, Delivers, Requested
<1>7. ASSUME NEW t \in Senders, NEW m \in net, NoticeAccept(t, m) PROVE OneDelivery(w)'
  <2> DEFINE r == [pc |-> "notice", w |-> m.w, e |-> m.e, n |-> m.n, d |-> m.d]
  <2>1. r.pc = "notice" /\ SStep(t, r) /\ sth[t].pc = "idle" /\ UNCHANGED <<warrant, net>>
    BY <1>7 DEF NoticeAccept, SIs
  <2> HIDE DEF r
  <2> QED BY <1>a, <2>1, Away DEF Holds, Requested
<1>8. ASSUME NEW t \in Senders, NoticeCheck(t) PROVE OneDelivery(w)'
  <2> DEFINE r == [sth[t] EXCEPT !.pc = "checked"]
  <2>1. r.pc = "checked" /\ sth[t].pc = "notice" /\ UNCHANGED <<warrant, net>>
    BY <1>0, <1>8 DEF NoticeCheck, SIs, SourceThread
  <2>2. SStep(t, r) \/ SStep(t, SIdle)
    BY <1>8 DEF NoticeCheck
  <2> HIDE DEF r
  <2> QED BY <1>a, <1>b, <2>1, <2>2, Away DEF Holds, Requested
<1>9. ASSUME NEW t \in Senders, NoticeApply(t) PROVE OneDelivery(w)'
  <2>1. warrant'[w].exec = warrant[w].exec
    BY <1>9 DEF NoticeApply, TypeInv
  <2> QED BY <1>a, <1>b, <1>9, <2>1, Away DEF NoticeApply, SIs, Holds, Requested
<1>10. ASSUME NEW v \in Warrants, NEW d \in Decisions, ReviewSource(v, d) PROVE OneDelivery(w)'
  <2>1. UNCHANGED <<sth, net>> /\ warrant'[w].exec = warrant[w].exec
    BY <1>10 DEF ReviewSource, TypeInv
  <2> QED BY <2>1 DEF OneDelivery, OneHolder, HeldIsReady, RequestHeld, OneRequest, NotYetPosted,
                      Holds, Delivers, Requested
<1>11. ASSUME NEW t \in Senders, SendFails(t) PROVE FALSE
  BY <1>11 DEF SendFails, Calm
<1>12. ASSUME CrashSource PROVE FALSE
  BY <1>12 DEF CrashSource, Calm, TypeInv
<1> QED
  BY <1>1, <1>2, <1>3, <1>4, <1>5, <1>6, <1>7, <1>8, <1>9, <1>10, <1>11, <1>12
     DEF SourceNext, SenderStep

LEMMA StepSingle == TypeInv /\ SingleInv /\ [Next]_vars => SingleInv'
<1>1. SingleInv /\ UNCHANGED vars => SingleInv'
  BY DEF SingleInv, Calm, OneDelivery, OneHolder, HeldIsReady, RequestHeld, OneRequest,
         NotYetPosted, Holds, Delivers, Requested, vars, source
<1>2. ASSUME TypeInv, SingleInv, Next, Calm', NEW w \in Warrants \ (Linked \cup shared')
      PROVE  OneDelivery(w)'
  <2>1. Calm
    <3>1. lossy' = lossy /\ (crashes' = 0 => crashes = 0)
      BY <1>2, SourceFrame, ReceiverFrame DEF Next
    <3> QED BY <1>2, <3>1 DEF Calm
  <2>2. OneHolder(w)' /\ w \notin shared
    BY <1>2, WatchedHolder DEF Next
  <2>3. OneDelivery(w)
    BY <1>2, <2>1, <2>2 DEF SingleInv
  <2>4. CASE SourceNext
    BY <1>2, <2>2, <2>3, <2>4, SourceSingle
  <2>5. CASE ReceiverNext
    <3>1. UNCHANGED <<sth, warrant>> /\ \A e \in Envelopes : Requested(e, w)' => Requested(e, w)
      BY <1>2, <2>5, ReceiverFrame DEF source
    <3>2. HeldIsReady(w)' /\ RequestHeld(w)'
      BY <2>3, <3>1 DEF OneDelivery, HeldIsReady, RequestHeld, Holds, Delivers
    <3>3. OneRequest(w)' /\ NotYetPosted(w)'
      BY <2>3, <3>1 DEF OneDelivery, OneRequest, NotYetPosted
    <3> QED BY <2>2, <3>2, <3>3 DEF OneDelivery
  <2> QED BY <1>2, <2>4, <2>5 DEF Next
<1> QED BY <1>1, <1>2 DEF SingleInv

LEMMA InitSingle == Init => JobsRequested /\ SingleInv
<1> SUFFICES ASSUME Init PROVE JobsRequested /\ SingleInv
  OBVIOUS
<1>1. /\ \A t \in Senders : sth[t].pc = "idle"
      /\ \A t \in Receivers : rth[t].pc = "idle"
      /\ \A e \in Envelopes : job[e].state = None
      /\ net = {}
  BY DEF Init, SIdle, RIdle, NoJob
<1> QED BY <1>1 DEF JobsRequested, SingleInv, OneDelivery, OneHolder, HeldIsReady, RequestHeld,
                    OneRequest, NotYetPosted, Holds, Requested

\* In calm a warrant sent without a commitment buys one execution: of all the
\* envelopes the source host ever posts under it at most one becomes a job, as long
\* as no two requests delivered it at the same time.
THEOREM OneExecution == Spec => []SingleUse
<1>1. Spec => [](JobsRequested /\ SingleInv)
  BY InitSingle, StepJobs, StepSingle, Typed, PTL DEF Spec
<1>2. JobsRequested /\ SingleInv => SingleUse
  BY DEF JobsRequested, SingleInv, SingleUse, OneDelivery, OneRequest
<1> QED BY <1>1, <1>2, PTL

(***************************************************************************)
(* Reviews and notices.                                                    *)
(***************************************************************************)
Posts == {m \in net : m.type = "court_notice"}
Notice(r) == [type |-> "court_notice", e |-> r.e, w |-> r.w, n |-> r.n, d |-> r.d]

\* Notices are numbered in the order of their posts, and only posted ones are seen.
Numbered ==
    /\ \A m \in Posts : m.n \in 1 .. Cardinality(Posts)
    /\ \A m, k \in Posts : m.n = k.n => m = k
    /\ sSeen \subseteq 1 .. Cardinality(Posts)
    /\ answered \cap Nat \subseteq sSeen
\* An envelope requests one warrant, and a job and a notice of it name that one.
OneWarrant == \A e \in Envelopes, w, v \in Warrants : Requested(e, w) /\ Requested(e, v) => w = v
Named ==
    /\ \A m \in Posts : Requested(m.e, m.w)
    /\ \A e \in Envelopes : job[e].notice # None => Requested(e, job[e].w)
    /\ \A u \in Receivers : rth[u].pc \in {"synced", "notified"} =>
          Requested(rth[u].e, rth[u].w) /\ job[rth[u].e].w = rth[u].w
\* Who waits for the answer to a notice has posted it; who applies one has it from
\* the network, alone, and has not answered yet.
Waiting == \A u \in Receivers : rth[u].pc = "notified" => Notice(rth[u]) \in net
AtNotice(t) == sth[t].pc \in {"notice", "checked"}
Applying ==
    /\ \A t \in Senders : AtNotice(t) =>
          Notice(sth[t]) \in net /\ sth[t].n \in sSeen /\ sth[t].n \notin answered
    /\ \A t, u \in Senders : AtNotice(t) /\ AtNotice(u) /\ sth[t].n = sth[u].n => t = u
NoticesInv == Numbered /\ OneWarrant /\ Named /\ Waiting /\ Applying

\* In calm somebody waits for each notice that is not answered, a delivery is on
\* record when its sender is done with it, and the warrant of the only request shows
\* the notice that was answered last, which its poster may still have to record.
Awaited == \A m \in Posts :
    m.n \notin answered => \E u \in Receivers : rth[u].pc = "notified" /\ rth[u].n = m.n
OnRecord == \A e \in Envelopes, w \in Warrants : Requested(e, w) =>
    (\E t \in Senders : Records(sth[t], e)) \/ <<w, e>> \in proof \/ warrant[w].exec = "executed"
Unhurried == \A e \in Envelopes \ hasty :
    /\ \A t, u \in Receivers : Awaits(rth[t], e) /\ Awaits(rth[u], e) => t = u
    /\ \A t, u \in Senders : ~(Hears(sth[t], e) /\ Records(sth[u], e))
OnlyRequest(e, w) == Requested(e, w) /\ \A f \in Envelopes : Requested(f, w) => f = e
Shows(e, w) ==
    /\ \A u \in Receivers : Awaits(rth[u], e) /\ rth[u].n \in answered =>
          warrant[w].review = Reviewed(rth[u].d)
    /\ job[e].notice # None /\ (\A u \in Receivers : Awaits(rth[u], e) => rth[u].n \notin answered) =>
          warrant[w].review = Reviewed(job[e].notice)
Reflected == \A e \in Envelopes \ hasty, w \in Warrants :
    OnlyRequest(e, w) /\ warrant[w].exec = "ready" => Shows(e, w)
ReflectInv ==
    /\ Unhurried
    /\ Calm /\ home = 0 => Awaited /\ OnRecord /\ Reflected

\* A post that is no notice leaves the notices as they are; the next notice gets
\* the next number.
LEMMA RequestPosted ==
    ASSUME NEW e, NEW w, net' = net \cup {[type |-> "execution_request", e |-> e, w |-> w]}
    PROVE  Posts' = Posts
BY DEF Posts

LEMMA NoticePosted ==
    ASSUME TypeInv, NEW m, m.type = "court_notice", m.n = NextNotice, Numbered,
           net' = net \cup {m}
    PROVE  /\ Posts' = Posts \cup {m} /\ Cardinality(Posts') = Cardinality(Posts) + 1
           /\ Cardinality(Posts) \in Nat /\ NextNotice = Cardinality(Posts) + 1
           /\ m \notin Posts /\ NextNotice \notin sSeen /\ NextNotice \notin answered
<1>1. IsFiniteSet(Posts)
  BY FS_Subset DEF TypeInv, Posts
<1>2. Cardinality(Posts) \in Nat /\ NextNotice = Cardinality(Posts) + 1
  BY <1>1, FS_CardinalityType DEF NextNotice, Posts
<1>3. m \notin Posts /\ NextNotice \notin sSeen /\ NextNotice \notin answered
  BY <1>2 DEF Numbered
<1>4. Posts' = Posts \cup {m}
  BY DEF Posts
<1>5. Cardinality(Posts \cup {m}) = Cardinality(Posts) + 1
  BY <1>1, <1>3, FS_AddElement
<1> QED BY <1>2, <1>3, <1>4, <1>5

\* What holds of the notices rests on the network, the nonces, the jobs and the
\* threads; a thread that is no longer at a notice, or at rest, promises nothing.
LEMMA NoticesFrame ==
    ASSUME TypeInv, NoticesInv, UNCHANGED <<net, sSeen>>,
           answered' \cap Nat = answered \cap Nat,
           \A t \in Senders : sth'[t] = sth[t] \/ sth'[t].pc \notin {"notice", "checked"}
                              \/ (AtNotice(t) /\ Notice(sth'[t]) = Notice(sth[t]) /\ sth'[t].n = sth[t].n),
           \A e \in Envelopes : job'[e].notice # None => job[e].notice # None /\ job'[e].w = job[e].w,
           \A u \in Receivers : rth'[u].pc \in {"synced", "notified"} =>
               rth'[u] = rth[u] /\ job'[rth[u].e].w = job[rth[u].e].w
    PROVE  NoticesInv'
<1>1. Posts' = Posts /\ \A e, w : Requested(e, w)' <=> Requested(e, w)
  BY DEF Posts, Requested
<1>2. Numbered'
  BY <1>1 DEF NoticesInv, Numbered
<1>3. OneWarrant'
  BY <1>1 DEF NoticesInv, OneWarrant
<1>4. Named'
  BY <1>1 DEF NoticesInv, Named
<1>5. Waiting'
  BY DEF NoticesInv, Waiting, Notice
<1>6. Applying'
  <2>1. \A t \in Senders : AtNotice(t)' => AtNotice(t) /\ Notice(sth'[t]) = Notice(sth[t]) /\ sth'[t].n = sth[t].n
    BY DEF AtNotice
  <2>2. \A t \in Senders : sth[t].n \in Nat
    BY DEF TypeInv, SourceThread
  <2> QED BY <2>1, <2>2 DEF NoticesInv, Applying
<1> QED BY <1>2, <1>3, <1>4, <1>5, <1>6 DEF NoticesInv

\* An answer to a notice is given once, by the one thread that applies it.
LEMMA NoticeAnswered ==
    ASSUME TypeInv, NoticesInv, NEW t \in Senders, AtNotice(t), SStep(t, SIdle),
           answered' = answered \cup {sth[t].n}, UNCHANGED <<receiver, net, sSeen>>
    PROVE  NoticesInv'
<1>1. Posts' = Posts /\ \A e, w : Requested(e, w)' <=> Requested(e, w)
  BY DEF Posts, Requested
<1>2. sth[t].n \in sSeen /\ sth[t].n \in Nat
  BY DEF NoticesInv, Applying, TypeInv, SourceThread
<1>3. Numbered'
  BY <1>1, <1>2 DEF NoticesInv, Numbered
<1>4. OneWarrant' /\ Named' /\ Waiting'
  BY <1>1 DEF NoticesInv, OneWarrant, Named, Waiting, Notice, receiver
<1>5. \A u \in Senders : AtNotice(u)' => AtNotice(u) /\ u # t /\ sth'[u] = sth[u]
  BY DEF AtNotice, SStep, SIdle, TypeInv
<1>6. Applying'
  BY <1>5 DEF NoticesInv, Applying, Notice
<1> QED BY <1>3, <1>4, <1>6 DEF NoticesInv

LEMMA SourceNotices ==
    ASSUME TypeInv, NoticesInv, SourceNext
    PROVE  NoticesInv'
<1>0. UNCHANGED receiver /\ \A u \in Senders : sth[u] \in SourceThread
  BY SourceFrame DEF TypeInv
<1>a. \A u \in Senders : \A r : SStep(u, r) => \A t \in Senders : sth'[t] = IF t = u THEN r ELSE sth[t]
  BY DEF SStep, TypeInv
<1>b. SIdle.pc = "idle"
  BY DEF SIdle
<1>1. ASSUME UNCHANGED <<net, sSeen, answered>>,
             \A t \in Senders : sth'[t] = sth[t] \/ sth'[t].pc \notin {"notice", "checked"}
      PROVE  NoticesInv'
  BY <1>0, <1>1, NoticesFrame DEF receiver
<1>2. ASSUME NEW t \in Senders, NEW w \in Warrants, SendValidate(t, w) PROVE NoticesInv'
  <2> DEFINE r == [SIdle EXCEPT !.pc = "validated", !.w = w]
  <2>1. r.pc = "validated" /\ SStep(t, r) /\ UNCHANGED <<net, sSeen, answered>>
    BY <1>2 DEF SendValidate, SIdle
  <2> HIDE DEF r
  <2> QED BY <1>1, <1>a, <2>1
<1>3. ASSUME NEW t \in Senders, NEW e \in Envelopes, SendPost(t, e) PROVE NoticesInv'
  <2> DEFINE r == [sth[t] EXCEPT !.pc = "posted", !.e = e]
  <2>1. /\ r.pc = "posted" /\ SStep(t, r) /\ UNCHANGED <<sSeen, answered>> /\ e \in Fresh
        /\ net' = net \cup {[type |-> "execution_request", e |-> e, w |-> sth[t].w]}
    BY <1>0, <1>3 DEF SendPost, SourceThread
  <2> HIDE DEF r
  <2>2. Posts' = Posts
    BY <2>1, RequestPosted
  <2>3. \A v : ~Requested(e, v)
    BY <2>1 DEF Fresh, Requested
  <2>4. \A f, v : Requested(f, v)' <=> Requested(f, v) \/ (f = e /\ v = sth[t].w)
    BY <2>1 DEF Requested
  <2>5. Numbered' /\ OneWarrant'
    BY <2>1, <2>2, <2>3, <2>4 DEF NoticesInv, Numbered, OneWarrant
  <2>6. Named' /\ Waiting'
    BY <1>0, <2>1, <2>2, <2>4 DEF NoticesInv, Named, Waiting, Notice, receiver
  <2>7. \A u \in Senders : AtNotice(u)' => AtNotice(u) /\ sth'[u] = sth[u]
    BY <1>a, <2>1 DEF AtNotice
  <2>8. Applying'
    BY <2>1, <2>7 DEF NoticesInv, Applying, Notice
  <2> QED BY <2>5, <2>6, <2>8 DEF NoticesInv
<1>4. ASSUME NEW t \in Senders, SendAnswered(t) PROVE NoticesInv'
  <2>1. [sth[t] EXCEPT !.pc = "answered"].pc = "answered"
    BY <1>0 DEF SourceThread
  <2> QED BY <1>1, <1>4, <1>a, <2>1 DEF SendAnswered
<1>5. ASSUME NEW t \in Senders, SendMark(t) PROVE NoticesInv'
  <2>1. [sth[t] EXCEPT !.pc = "marked"].pc = "marked"
    BY <1>0 DEF SourceThread
  <2>2. SStep(t, [sth[t] EXCEPT !.pc = "marked"]) \/ SStep(t, SIdle)
    BY <1>5 DEF SendMark
  <2> QED BY <1>1, <1>5, <1>a, <1>b, <2>1, <2>2 DEF SendMark
<1>6. ASSUME NEW t \in Senders, SendFails(t) \/ SendAudit(t) PROVE NoticesInv'
  BY <1>1, <1>6, <1>a, <1>b DEF SendFails, SendAudit
<1>7. ASSUME NEW t \in Senders, NEW w \in Warrants, FinalizeSenderWarrant(t, w) PROVE NoticesInv'
  BY <1>1, <1>7 DEF FinalizeSenderWarrant
<1>8. ASSUME NEW w \in Warrants, NEW d \in Decisions, ReviewSource(w, d) PROVE NoticesInv'
  BY <1>1, <1>8 DEF ReviewSource
<1>9. ASSUME CrashSource PROVE NoticesInv'
  BY <1>1, <1>9, <1>b DEF CrashSource
<1>10. ASSUME NEW t \in Senders, NEW m \in net, NoticeAccept(t, m) PROVE NoticesInv'
  <2> DEFINE r == [pc |-> "notice", w |-> m.w, e |-> m.e, n |-> m.n, d |-> m.d]
  <2>1. /\ SStep(t, r) /\ sth[t].pc = "idle" /\ m.type = "court_notice" /\ m.n \notin sSeen
        /\ sSeen' = sSeen \cup {m.n} /\ UNCHANGED <<net, answered>>
    BY <1>10 DEF NoticeAccept, SIs, SUnseen
  <2>2. m \in Posts /\ m.n \in Nat /\ m \in AnyNotices
    BY <2>1 DEF Posts, TypeInv, AnyNotices, Requests
  <2>3. Posts' = Posts /\ \A e, w : Requested(e, w)' <=> Requested(e, w)
    BY <2>1 DEF Posts, Requested
  <2>4. Numbered' /\ OneWarrant'
    BY <2>1, <2>2, <2>3 DEF NoticesInv, Numbered, OneWarrant
  <2>5. Named' /\ Waiting'
    BY <1>0, <2>1, <2>3 DEF NoticesInv, Named, Waiting, Notice, receiver
  <2>6. Notice(r) = m
    BY <2>1, <2>2 DEF Notice, AnyNotices
  <2>7. m.n \notin answered
    BY <2>1, <2>2 DEF NoticesInv, Numbered
  <2>8. r.n = m.n
    OBVIOUS
  <2> HIDE DEF r
  <2>9. \A u \in Senders : sth'[u] = IF u = t THEN r ELSE sth[u]
    BY <1>a, <2>1
  <2>10. \A u \in Senders : u # t /\ AtNotice(u)' => AtNotice(u) /\ sth[u].n # m.n
    BY <2>1, <2>9 DEF NoticesInv, Applying, AtNotice
  <2>11. Applying'
    BY <2>1, <2>6, <2>7, <2>8, <2>9, <2>10 DEF NoticesInv, Applying, Notice
  <2> QED BY <2>4, <2>5, <2>11 DEF NoticesInv
<1>11. ASSUME NEW t \in Senders, NoticeCheck(t) PROVE NoticesInv'
  <2> DEFINE r == [sth[t] EXCEPT !.pc = "checked"]
  <2>1. /\ Notice(r) = Notice(sth[t]) /\ r.n = sth[t].n /\ AtNotice(t) /\ UNCHANGED <<net, sSeen>>
    BY <1>0, <1>11 DEF NoticeCheck, SIs, SourceThread, Notice, AtNotice
  <2>2. CASE SStep(t, r) /\ UNCHANGED answered
    <3> HIDE DEF r
    <3>1. \A u \in Senders : sth'[u] = sth[u] \/
              (AtNotice(u) /\ Notice(sth'[u]) = Notice(sth[u]) /\ sth'[u].n = sth[u].n)
      BY <1>a, <2>1, <2>2
    <3> QED BY <1>0, <2>1, <2>2, <3>1, NoticesFrame DEF receiver
  <2>3. CASE SStep(t, SIdle) /\ answered' = answered \cup {sth[t].n}
    BY <1>0, <2>1, <2>3, NoticeAnswered
  <2> QED BY <1>11, <2>2, <2>3 DEF NoticeCheck
<1>12. ASSUME NEW t \in Senders, NoticeApply(t) PROVE NoticesInv'
  BY <1>0, <1>12, NoticeAnswered DEF NoticeApply, SIs, AtNotice
<1> QED
  BY <1>2, <1>3, <1>4, <1>5, <1>6, <1>7, <1>8, <1>9, <1>10, <1>11, <1>12 DEF SourceNext, SenderStep

LEMMA ReceiverNotices ==
    ASSUME TypeInv, JobsRequested, NoticesInv, ReceiverNext
    PROVE  NoticesInv'
<1>0. UNCHANGED <<sth, sSeen>> /\ \A u \in Receivers : rth[u] \in ReceiverThread /\ ReceiverThreadOK(rth[u])
  BY ReceiverFrame DEF TypeInv, source
<1>a. \A u \in Receivers : \A r : RStep(u, r) => \A t \in Receivers : rth'[t] = IF t = u THEN r ELSE rth[t]
  BY DEF RStep, TypeInv
<1>b. RIdle.pc = "idle"
  BY DEF RIdle
<1>1. ASSUME UNCHANGED <<net, job>>, answered' \cap Nat = answered \cap Nat,
             \A t \in Receivers : rth'[t] = rth[t] \/ rth'[t].pc \notin {"synced", "notified"}
      PROVE  NoticesInv'
  BY <1>0, <1>1, NoticesFrame
<1>2. ASSUME NEW t \in Receivers, NEW r, RStep(t, r), r.pc \notin {"synced", "notified"},
             UNCHANGED <<net, job>>, answered' \cap Nat = answered \cap Nat
      PROVE  NoticesInv'
  BY <1>1, <1>2, <1>a
<1>3. ASSUME NEW t \in Receivers, NEW m \in net, RecvValidate(t, m) PROVE NoticesInv'
  <2> DEFINE r == [RIdle EXCEPT !.pc = "validated", !.e = m.e, !.w = m.w]
  <2>1. r.pc = "validated"
    BY DEF RIdle
  <2>2. RStep(t, r) /\ UNCHANGED <<net, job, answered>>
    BY <1>3 DEF RecvValidate
  <2> HIDE DEF r
  <2> QED BY <1>2, <2>1, <2>2
<1>4. ASSUME NEW t \in Receivers, RecvAccept(t) PROVE NoticesInv'
  <2> DEFINE r == [rth[t] EXCEPT !.pc = "accepted"]
  <2>1. r.pc = "accepted"
    BY <1>0 DEF ReceiverThread
  <2>2. RStep(t, r) /\ UNCHANGED <<net, job, answered>>
    BY <1>4 DEF RecvAccept
  <2> HIDE DEF r
  <2> QED BY <1>2, <2>1, <2>2
\* a job stored anew under its request names the warrant its notices name
<1>5. ASSUME NEW t \in Receivers, NEW j, rth[t].pc \in {"accepted", "issued"}, RStep(t, RIdle),
             \A e \in Envelopes : job'[e] = IF e = rth[t].e THEN j ELSE job[e],
             j.w = rth[t].w, j.notice = None,
             answered' = answered \cup {rth[t].e}, UNCHANGED net
      PROVE  NoticesInv'
  <2>1. rth[t].e \in Envelopes /\ rth[t].w \in Warrants /\ Requested(rth[t].e, rth[t].w)
    BY <1>0, <1>5 DEF ReceiverThreadOK, JobsRequested
  <2>3. answered' \cap Nat = answered \cap Nat
    BY <1>5, <2>1, HandoffAssumption
  <2>4. \A e \in Envelopes : job'[e].notice # None => job[e].notice # None /\ job'[e].w = job[e].w
    BY <1>5
  <2>5. ASSUME NEW u \in Receivers, rth'[u].pc \in {"synced", "notified"}
        PROVE  rth'[u] = rth[u] /\ job'[rth[u].e].w = job[rth[u].e].w
    <3>1. rth'[u] = rth[u] /\ rth[u].pc \in {"synced", "notified"}
      BY <1>5, <1>a, <1>b, <2>5
    <3>2. rth[u].e \in Envelopes /\ rth[u].w \in Warrants
      BY <1>0, <3>1 DEF ReceiverThreadOK
    <3>3. Requested(rth[u].e, rth[u].w) /\ job[rth[u].e].w = rth[u].w
      BY <3>1 DEF NoticesInv, Named
    <3>4. rth[u].e = rth[t].e => rth[u].w = rth[t].w
      BY <2>1, <3>2, <3>3 DEF NoticesInv, OneWarrant
    <3> QED BY <1>5, <3>1, <3>2, <3>3, <3>4
  <2> QED BY <1>0, <1>5, <2>3, <2>4, <2>5, NoticesFrame
<1>6. ASSUME NEW t \in Receivers, RecvIssue(t) PROVE NoticesInv'
  <2>0. rth[t].e \in Envelopes /\ rth[t].e \notin Nat
    BY <1>0, <1>6, HandoffAssumption DEF ReceiverThreadOK, RecvIssue, RIs
  <2>1. CASE answered' = answered \cup {rth[t].e} /\ RStep(t, RIdle) /\ UNCHANGED job
    <3>1. answered' \cap Nat = answered \cap Nat
      BY <2>0, <2>1
    <3> QED BY <1>2, <1>6, <1>b, <2>1, <3>1 DEF RecvIssue
  <2>2. CASE /\ job' = [job EXCEPT ![rth[t].e] = BlockedJob(rth[t].e, rth[t].w)]
             /\ answered' = answered \cup {rth[t].e} /\ RStep(t, RIdle)
    <3> DEFINE j == BlockedJob(rth[t].e, rth[t].w)
    <3>1. j.w = rth[t].w /\ j.notice = None
      BY DEF BlockedJob, NoJob
    <3>2. \A e \in Envelopes : job'[e] = IF e = rth[t].e THEN j ELSE job[e]
      BY <2>2 DEF TypeInv
    <3>3. rth[t].pc = "accepted" /\ UNCHANGED net
      BY <1>6 DEF RecvIssue, RIs
    <3> HIDE DEF j
    <3> QED BY <1>5, <2>2, <3>1, <3>2, <3>3
  <2>3. CASE RStep(t, [rth[t] EXCEPT !.pc = "issued", !.lw = issued + 1]) /\ UNCHANGED <<job, answered>>
    <3> DEFINE r == [rth[t] EXCEPT !.pc = "issued", !.lw = issued + 1]
    <3>1. r.pc = "issued"
      BY <1>0 DEF ReceiverThread
    <3>2. RStep(t, r)
      BY <2>3
    <3> HIDE DEF r
    <3> QED BY <1>2, <1>6, <2>3, <3>1, <3>2 DEF RecvIssue
  <2> QED BY <1>6, <2>1, <2>2, <2>3 DEF RecvIssue
<1>7. ASSUME NEW t \in Receivers, RecvQueue(t) PROVE NoticesInv'
  <2> DEFINE j == [state |-> "pending_local_warrant", lw |-> rth[t].lw, w |-> rth[t].w, notice |-> None]
  <2>1. j.w = rth[t].w /\ j.notice = None
    OBVIOUS
  <2>2. /\ \A e \in Envelopes : job'[e] = IF e = rth[t].e THEN j ELSE job[e]
        /\ rth[t].pc = "issued" /\ RStep(t, RIdle)
        /\ answered' = answered \cup {rth[t].e} /\ UNCHANGED net
    BY <1>7 DEF RecvQueue, RIs, TypeInv
  <2> HIDE DEF j
  <2> QED BY <1>5, <2>1, <2>2
<1>8. ASSUME NEW t \in Receivers, NEW i, NEW d, LocalReview(t, i, d), UNCHANGED <<net, job, answered>>
      PROVE  NoticesInv'
  <2> DEFINE r == [RIdle EXCEPT !.pc = "reviewed", !.lw = i, !.d = d, !.saw = Reviewed(d)]
  <2>1. r.pc = "reviewed"
    BY DEF RIdle
  <2>2. RStep(t, r)
    BY <1>8 DEF LocalReview
  <2> HIDE DEF r
  <2> QED BY <1>2, <1>8, <2>1, <2>2
<1>9. ASSUME NEW t \in Receivers, NEW i \in LocalIds, NEW d \in Decisions, Review(t, i, d) PROVE NoticesInv'
  BY <1>8, <1>9 DEF Review
<1>10. ASSUME NEW t \in Receivers, Hold(t) PROVE NoticesInv'
  BY <1>2, <1>8, <1>10, <1>b DEF Hold
<1>11. ASSUME NEW t \in Receivers, NEW i \in LocalIds \cup {0}, OpenCase(t, i) PROVE NoticesInv'
  <2>1. [RIdle EXCEPT !.pc = "hold", !.lw = i].pc = "hold"
    BY DEF RIdle
  <2> QED BY <1>2, <1>11, <2>1 DEF OpenCase
<1>12. ASSUME NEW t \in Receivers, NEW s \in {"stayed", "resolved"}, ReviewCase(t, s) PROVE NoticesInv'
  <2>1. [RIdle EXCEPT !.pc = "hold", !.lw = peerCase.lw].pc = "hold"
    BY DEF RIdle
  <2> QED BY <1>2, <1>12, <1>b, <2>1 DEF ReviewCase
<1>13. ASSUME CrashReceiver PROVE NoticesInv'
  BY <1>1, <1>13, <1>b DEF CrashReceiver
<1>14. ASSUME NEW t \in Receivers, NotifyFails(t) PROVE NoticesInv'
  BY <1>2, <1>14, <1>b DEF NotifyFails
<1>15. ASSUME NEW t \in Receivers, Sync(t) PROVE NoticesInv'
  <2>1. CASE RStep(t, RIdle) /\ UNCHANGED job
    BY <1>2, <1>15, <1>b, <2>1 DEF Sync
  <2>2. ASSUME NEW e \in JobsOf(rth[t].lw), job' = [job EXCEPT ![e].state = JobStateFor(rth[t].saw)],
               RStep(t, [rth[t] EXCEPT !.pc = "synced", !.e = e, !.w = job[e].w, !.sent = job[e].notice])
        PROVE  NoticesInv'
    <3> DEFINE r == [rth[t] EXCEPT !.pc = "synced", !.e = e, !.w = job[e].w, !.sent = job[e].notice]
    <3>1. r.pc = "synced" /\ r.e = e /\ r.w = job[e].w
      BY <1>0 DEF ReceiverThread
    <3>2. RStep(t, r) /\ UNCHANGED <<net, answered>>
      BY <1>15, <2>2 DEF Sync
    <3> HIDE DEF r
    <3>3. e \in Envelopes /\ Requested(e, job[e].w)
      BY DEF JobsOf, JobsRequested, TypeInv, JobOK
    <3>4. \A f \in Envelopes : job'[f].w = job[f].w /\ job'[f].notice = job[f].notice
      BY <2>2, <3>3 DEF TypeInv, Job
    <3>5. \A u \in Receivers : rth'[u] = IF u = t THEN r ELSE rth[u]
      BY <1>a, <3>2
    <3>6. Posts' = Posts /\ \A f, w : Requested(f, w)' <=> Requested(f, w)
      BY <3>2 DEF Posts, Requested
    <3>7. Numbered' /\ OneWarrant' /\ Applying'
      BY <1>0, <3>2, <3>6 DEF NoticesInv, Numbered, OneWarrant, Applying, AtNotice, Notice
    <3>8. Waiting'
      BY <3>1, <3>2, <3>5 DEF NoticesInv, Waiting, Notice
    <3>9. ASSUME NEW u \in Receivers, rth'[u].pc \in {"synced", "notified"}
          PROVE  Requested(rth[u].e, rth[u].w)' /\ job'[rth'[u].e].w = rth'[u].w
      <4>1. CASE u = t
        BY <3>1, <3>2, <3>3, <3>4, <3>5, <4>1 DEF Requested
      <4>2. CASE u # t
        <5>1. rth'[u] = rth[u]
          BY <3>5, <4>2
        <5>2. rth[u].e \in Envelopes
          BY <1>0, <3>9, <5>1 DEF ReceiverThreadOK
        <5> QED BY <3>2, <3>4, <3>9, <5>1, <5>2 DEF NoticesInv, Named, Requested
      <4> QED BY <4>1, <4>2
    <3>10. Named'
      BY <3>4, <3>6, <3>9 DEF NoticesInv, Named
    <3> QED BY <3>7, <3>8, <3>10 DEF NoticesInv
  <2> QED BY <1>15, <2>1, <2>2 DEF Sync
<1>16. ASSUME NEW t \in Receivers, Notify(t) PROVE NoticesInv'
  <2>1. CASE RStep(t, RIdle) /\ UNCHANGED net
    BY <1>2, <1>16, <1>b, <2>1 DEF Notify
  <2>2. CASE LocalReview(t, peerCase.lw, "stay") /\ UNCHANGED net
    BY <1>8, <1>16, <2>2 DEF Notify
  <2>3. CASE /\ net' = net \cup {[type |-> "court_notice", e |-> rth[t].e, w |-> rth[t].w,
                                  n |-> NextNotice, d |-> rth[t].d]}
             /\ RStep(t, [rth[t] EXCEPT !.pc = "notified", !.n = NextNotice])
    <3> DEFINE r == [rth[t] EXCEPT !.pc = "notified", !.n = NextNotice]
               m == [type |-> "court_notice", e |-> rth[t].e, w |-> rth[t].w, n |-> NextNotice,
                     d |-> rth[t].d]
    <3>1. r.pc = "notified" /\ r.e = rth[t].e /\ r.w = rth[t].w /\ Notice(r) = m
      BY <1>0 DEF ReceiverThread, Notice
    <3>2. /\ RStep(t, r) /\ net' = net \cup {m} /\ UNCHANGED <<answered, job>>
          /\ rth[t].pc = "synced"
      BY <1>16, <2>3 DEF Notify, RIs
    <3>3. m.type = "court_notice" /\ m.n = NextNotice /\ m.e = rth[t].e /\ m.w = rth[t].w
      OBVIOUS
    <3> HIDE DEF r, m
    <3>4. /\ Posts' = Posts \cup {m} /\ Cardinality(Posts') = Cardinality(Posts) + 1
          /\ Cardinality(Posts) \in Nat /\ NextNotice = Cardinality(Posts) + 1
      BY <3>2, <3>3, NoticePosted DEF NoticesInv
    <3>5. \A u \in Receivers : rth'[u] = IF u = t THEN r ELSE rth[u]
      BY <1>a, <3>2
    <3>6. \A f, w : Requested(f, w)' <=> Requested(f, w)
      BY <3>2, <3>3 DEF Requested
    <3>7. Requested(rth[t].e, rth[t].w) /\ job[rth[t].e].w = rth[t].w
      BY <3>2 DEF NoticesInv, Named
    <3>8. Numbered'
      <4>1. \A k \in Posts' : k.n \in 1 .. Cardinality(Posts')
        BY <3>3, <3>4 DEF NoticesInv, Numbered
      <4>2. \A k \in Posts : k.n # m.n
        BY <3>3, <3>4 DEF NoticesInv, Numbered
      <4>3. \A k, l \in Posts' : k.n = l.n => k = l
        BY <3>4, <4>2 DEF NoticesInv, Numbered
      <4>4. sSeen' \subseteq 1 .. Cardinality(Posts')
        BY <1>0, <3>4 DEF NoticesInv, Numbered
      <4> QED BY <1>0, <3>2, <4>1, <4>3, <4>4 DEF NoticesInv, Numbered
    <3>9. OneWarrant' /\ Applying'
      BY <1>0, <3>2, <3>6 DEF NoticesInv, OneWarrant, Applying, AtNotice, Notice
    <3>10. Waiting'
      BY <3>1, <3>2, <3>5 DEF NoticesInv, Waiting, Notice
    <3>11. Named'
      BY <3>1, <3>2, <3>3, <3>4, <3>5, <3>6, <3>7 DEF NoticesInv, Named
    <3> QED BY <3>8, <3>9, <3>10, <3>11 DEF NoticesInv
  <2> QED BY <1>16, <2>1, <2>2, <2>3 DEF Notify
<1>17. ASSUME NEW t \in Receivers, Notified(t) PROVE NoticesInv'
  <2>1. /\ rth[t].pc = "notified" /\ RStep(t, RIdle) /\ UNCHANGED <<net, answered>>
        /\ job' = [job EXCEPT ![rth[t].e].notice = rth[t].d]
    BY <1>17 DEF Notified, RIs
  <2>2. rth[t].e \in Envelopes /\ Requested(rth[t].e, rth[t].w) /\ job[rth[t].e].w = rth[t].w
    BY <1>0, <2>1 DEF ReceiverThreadOK, NoticesInv, Named
  <2>3. \A e \in Envelopes : /\ job'[e].w = job[e].w
                             /\ e # rth[t].e => job'[e].notice = job[e].notice
    BY <2>1, <2>2 DEF TypeInv, Job
  <2>4. \A u \in Receivers : rth'[u] = IF u = t THEN RIdle ELSE rth[u]
    BY <1>a, <2>1
  <2>5. Posts' = Posts /\ \A f, w : Requested(f, w)' <=> Requested(f, w)
    BY <2>1 DEF Posts, Requested
  <2>6. Numbered' /\ OneWarrant' /\ Applying'
    BY <1>0, <2>1, <2>5 DEF NoticesInv, Numbered, OneWarrant, Applying, AtNotice, Notice
  <2>7. Waiting'
    BY <1>b, <2>1, <2>4 DEF NoticesInv, Waiting, Notice
  <2>8. \A u \in Receivers : rth[u].pc \in {"synced", "notified"} => rth[u].e \in Envelopes
    BY <1>0 DEF ReceiverThreadOK
  <2>9. Named'
    BY <1>b, <2>2, <2>3, <2>4, <2>5, <2>8 DEF NoticesInv, Named
  <2> QED BY <2>6, <2>7, <2>9 DEF NoticesInv
<1> QED
  BY <1>3, <1>4, <1>6, <1>7, <1>9, <1>10, <1>11, <1>12, <1>13, <1>14, <1>15, <1>16, <1>17
     DEF ReceiverNext, ReceiverStep

LEMMA StepNotices == TypeInv /\ JobsRequested /\ NoticesInv /\ [Next]_vars => NoticesInv'
<1>1. TypeInv /\ NoticesInv /\ UNCHANGED vars => NoticesInv'
  BY NoticesFrame DEF vars, source, receiver
<1> QED BY <1>1, SourceNotices, ReceiverNotices DEF Next

\* What Watch has noted of a request stays noted.
LEMMA WatchHaste == Watch => Unhurried' /\ hasty \subseteq hasty'
BY DEF Watch, Unhurried

\* A warrant goes on to show the notice that was answered last while nobody changes
\* its review, and who waits with which answer stays the same.
LEMMA StillShows ==
    ASSUME Reflected, hasty \subseteq hasty', NEW e \in Envelopes \ hasty', NEW w \in Warrants,
           OnlyRequest(e, w), warrant[w].exec = "ready", warrant'[w].review = warrant[w].review,
           job'[e].notice \in {None, job[e].notice},
           \A u \in Receivers : Awaits(rth[u], e) \/ Awaits(rth'[u], e) => rth'[u] = rth[u],
           \A u \in Receivers : Awaits(rth[u], e) => (rth[u].n \in answered' <=> rth[u].n \in answered)
    PROVE  Shows(e, w)'
<1>1. Shows(e, w)
  BY DEF Reflected
<1>2. \A u \in Receivers : Awaits(rth'[u], e) <=> Awaits(rth[u], e)
  OBVIOUS
<1>3. \A u \in Receivers : Awaits(rth'[u], e) /\ rth'[u].n \in answered' =>
          warrant'[w].review = Reviewed(rth'[u].d)
  BY <1>1 DEF Shows
<1>4. job'[e].notice # None /\ (\A u \in Receivers : Awaits(rth'[u], e) => rth'[u].n \notin answered') =>
          warrant'[w].review = Reviewed(job'[e].notice)
  BY <1>1 DEF Shows
<1> QED BY <1>3, <1>4 DEF Shows

\* The notice a receiver waits for is the one a thread applies when the numbers agree.
LEMMA SameNotice ==
    ASSUME TypeInv, NoticesInv, NEW u \in Receivers, rth[u].pc = "notified",
           NEW t \in Senders, AtNotice(t), rth[u].n = sth[t].n
    PROVE  rth[u].e = sth[t].e /\ rth[u].w = sth[t].w /\ rth[u].d = sth[t].d
<1>1. Notice(rth[u]) \in Posts /\ Notice(sth[t]) \in Posts
  BY DEF NoticesInv, Waiting, Applying, Posts, Notice
<1>2. Notice(rth[u]).n = rth[u].n /\ Notice(sth[t]).n = sth[t].n
  BY DEF Notice
<1>3. Notice(rth[u]) = Notice(sth[t])
  BY <1>1, <1>2 DEF NoticesInv, Numbered
<1>4. /\ Notice(rth[u]).e = rth[u].e /\ Notice(rth[u]).w = rth[u].w /\ Notice(rth[u]).d = rth[u].d
      /\ Notice(sth[t]).e = sth[t].e /\ Notice(sth[t]).w = sth[t].w /\ Notice(sth[t]).d = sth[t].d
  BY DEF Notice
<1> QED BY <1>3, <1>4

\* A thread at a notice has a request for the warrant it names.
LEMMA NoticeNames ==
    ASSUME TypeInv, NoticesInv, NEW t \in Senders, AtNotice(t)
    PROVE  sth[t].e \in Envelopes /\ sth[t].w \in Warrants /\ Requested(sth[t].e, sth[t].w)
<1>1. Notice(sth[t]) \in Posts /\ Notice(sth[t]).e = sth[t].e /\ Notice(sth[t]).w = sth[t].w
  BY DEF NoticesInv, Applying, Posts, Notice
<1> QED BY <1>1 DEF NoticesInv, Named, AtNotice, TypeInv, SourceThreadOK

LEMMA SourceReflects ==
    ASSUME TypeInv, RecordsInv, NoticesInv, SourceNext, Unhurried, hasty \subseteq hasty',
           Awaited, OnRecord, Reflected, Calm', home' = 0
    PROVE  Awaited' /\ OnRecord' /\ Reflected'
<1>0. UNCHANGED <<job, rth>> /\ answered \subseteq answered' /\ ~lossy /\ crashes' = 0 /\ crashes = 0
  BY SourceFrame DEF receiver, Calm
<1>a. \A t \in Senders : \A r : SStep(t, r) => \A u \in Senders : sth'[u] = IF u = t THEN r ELSE sth[u]
  BY DEF SStep, TypeInv
<1>b. SIdle.pc = "idle" /\ \A t \in Senders : sth[t] \in SourceThread /\ SourceThreadOK(sth[t])
  BY DEF SIdle, TypeInv
\* who waits for the notices is left alone
<1>1. ASSUME Posts' = Posts PROVE Awaited'
  BY <1>0, <1>1 DEF Awaited
\* no request is added and a delivery goes on or is on record
<1>2. ASSUME UNCHANGED net, proof \subseteq proof',
             \A w \in Warrants : warrant[w].exec = "executed" => warrant'[w].exec = "executed",
             \A t \in Senders, e \in Envelopes : Records(sth[t], e) =>
                 \/ Records(sth'[t], e)
                 \/ \A w \in Warrants : Requested(e, w) =>
                        <<w, e>> \in proof' \/ warrant'[w].exec = "executed"
      PROVE  OnRecord'
  <2> SUFFICES ASSUME NEW e \in Envelopes, NEW w \in Warrants, Requested(e, w)'
               PROVE  (\E t \in Senders : Records(sth'[t], e)) \/ <<w, e>> \in proof'
                      \/ warrant'[w].exec = "executed"
    BY DEF OnRecord
  <2>1. Requested(e, w)
    BY <1>2 DEF Requested
  <2> QED BY <1>2, <2>1 DEF OnRecord
<1>3. ASSUME UNCHANGED <<net, answered>>,
             \A w \in Warrants : warrant'[w].exec = "ready" =>
                 warrant[w].exec = "ready" /\ warrant'[w].review = warrant[w].review
      PROVE  Reflected'
  <2> SUFFICES ASSUME NEW e \in Envelopes \ hasty', NEW w \in Warrants, OnlyRequest(e, w)',
                      warrant'[w].exec = "ready"
               PROVE  Shows(e, w)'
    BY DEF Reflected
  <2>1. OnlyRequest(e, w)
    BY <1>3 DEF OnlyRequest, Requested
  <2> QED BY <1>0, <1>3, <2>1, StillShows
<1>4. ASSUME UNCHANGED <<net, answered, proof, warrant>>,
             \A t \in Senders, e \in Envelopes : Records(sth[t], e) => Records(sth'[t], e)
      PROVE  Awaited' /\ OnRecord' /\ Reflected'
  <2>1. Posts' = Posts
    BY <1>4 DEF Posts
  <2> QED BY <1>1, <1>2, <1>3, <1>4, <2>1
<1>5. ASSUME NEW t \in Senders, NEW w \in Warrants, SendValidate(t, w)
      PROVE  Awaited' /\ OnRecord' /\ Reflected'
  <2>1. sth[t].pc = "idle" /\ \E r : SStep(t, r)
    BY <1>5 DEF SendValidate, SIs
  <2> QED BY <1>4, <1>5, <1>a, <2>1 DEF SendValidate, Records
<1>6. ASSUME NEW t \in Senders, NEW e \in Envelopes, SendPost(t, e)
      PROVE  Awaited' /\ OnRecord' /\ Reflected'
  <2> DEFINE r == [sth[t] EXCEPT !.pc = "posted", !.e = e]
  <2>1. /\ r.pc = "posted" /\ r.e = e /\ SStep(t, r) /\ UNCHANGED <<answered, proof, warrant>>
        /\ e \in Fresh /\ sth[t].pc = "validated"
        /\ net' = net \cup {[type |-> "execution_request", e |-> e, w |-> sth[t].w]}
    BY <1>b, <1>6 DEF SendPost, SourceThread, SIs
  <2> HIDE DEF r
  <2>2. \A v : ~Requested(e, v)
    BY <2>1 DEF Fresh, Requested
  <2>3. \A f, v : Requested(f, v)' <=> Requested(f, v) \/ (f = e /\ v = sth[t].w)
    BY <2>1 DEF Requested
  <2>4. Awaited'
    BY <1>1, <2>1, RequestPosted
  <2>5. \A f : Records(sth[t], f) => Records(sth'[t], f)
    BY <2>1 DEF Records
  <2>6. \A u \in Senders, f \in Envelopes : Records(sth[u], f) => Records(sth'[u], f)
    BY <1>a, <2>1, <2>5
  <2>7. Records(sth'[t], e)
    BY <1>a, <2>1 DEF Records
  <2>8. OnRecord'
    BY <2>1, <2>3, <2>6, <2>7 DEF OnRecord
  <2>9. ASSUME NEW f \in Envelopes \ hasty', NEW v \in Warrants, OnlyRequest(f, v)',
               warrant'[v].exec = "ready"
        PROVE  Shows(f, v)'
    <3>1. CASE f = e
      <4>1. \A u \in Receivers : ~Awaits(rth[u], e)
        BY <2>2 DEF Awaits, NoticesInv, Named
      <4>2. job[e].notice = None
        BY <2>2 DEF NoticesInv, Named
      <4> QED BY <1>0, <3>1, <4>1, <4>2 DEF Shows
    <3>2. CASE f # e
      <4>1. OnlyRequest(f, v)
        BY <2>3, <2>9, <3>2 DEF OnlyRequest
      <4> QED BY <1>0, <2>1, <2>9, <4>1, StillShows
    <3> QED BY <3>1, <3>2
  <2> QED BY <2>4, <2>8, <2>9 DEF Reflected
<1>7. ASSUME NEW t \in Senders, SendAnswered(t) PROVE Awaited' /\ OnRecord' /\ Reflected'
  <2> DEFINE r == [sth[t] EXCEPT !.pc = "answered"]
  <2>1. r.pc = "answered" /\ r.e = sth[t].e /\ SStep(t, r)
    BY <1>b, <1>7 DEF SendAnswered, SourceThread
  <2> HIDE DEF r
  <2> QED BY <1>4, <1>7, <1>a, <2>1 DEF SendAnswered, Records
\* the sender's delivery ends with its record, or with a warrant executed already
<1>8. ASSUME NEW t \in Senders, sth[t].pc \in {"answered", "marked"}, NEW e \in Envelopes,
             Records(sth[t], e), NEW w \in Warrants, Requested(e, w)
      PROVE  e = sth[t].e /\ w = sth[t].w
  BY <1>b, <1>8 DEF Records, RecordsInv, SourceThreadOK, NoticesInv, OneWarrant
<1>9. ASSUME NEW t \in Senders, SendMark(t) PROVE Awaited' /\ OnRecord' /\ Reflected'
  <2> DEFINE r == [sth[t] EXCEPT !.pc = "marked"]
  <2>1. /\ r.pc = "marked" /\ r.e = sth[t].e /\ sth[t].pc = "answered" /\ sth[t].w \in Warrants
        /\ UNCHANGED <<net, answered, proof>>
    BY <1>b, <1>9 DEF SendMark, SourceThread, SourceThreadOK, SIs
  <2>2. \/ SStep(t, r)
        \/ SStep(t, SIdle) /\ warrant[sth[t].w].exec = "executed" /\ UNCHANGED warrant
    BY <1>9, <2>1 DEF SendMark, TypeInv
  <2> HIDE DEF r
  <2>3. \A w \in Warrants : /\ warrant[w].exec = "executed" => warrant'[w].exec = "executed"
                            /\ warrant'[w].exec = "ready" => warrant'[w] = warrant[w]
    BY <1>9, <2>1 DEF SendMark, TypeInv
  <2>4. Posts' = Posts
    BY <2>1 DEF Posts
  <2>5. ASSUME NEW u \in Senders, NEW e \in Envelopes, Records(sth[u], e), ~Records(sth'[u], e),
               NEW w \in Warrants, Requested(e, w)
        PROVE  warrant'[w].exec = "executed"
    <3>1. u = t /\ SStep(t, SIdle) /\ warrant[sth[t].w].exec = "executed"
      BY <1>a, <2>1, <2>2, <2>5 DEF Records
    <3> QED BY <1>8, <2>1, <2>3, <2>5, <3>1
  <2>6. OnRecord'
    BY <1>2, <2>1, <2>3, <2>5
  <2> QED BY <1>1, <1>3, <2>1, <2>3, <2>4, <2>6
<1>10. ASSUME NEW t \in Senders, SendAudit(t) PROVE Awaited' /\ OnRecord' /\ Reflected'
  <2>1. /\ sth[t].pc = "marked" /\ SStep(t, SIdle) /\ UNCHANGED <<net, answered, warrant>>
        /\ proof' = proof \cup {<<sth[t].w, sth[t].e>>}
    BY <1>10 DEF SendAudit, SIs
  <2>2. Posts' = Posts
    BY <2>1 DEF Posts
  <2>3. ASSUME NEW u \in Senders, NEW e \in Envelopes, Records(sth[u], e), ~Records(sth'[u], e),
               NEW w \in Warrants, Requested(e, w)
        PROVE  <<w, e>> \in proof'
    <3>1. u = t
      BY <1>a, <2>1, <2>3
    <3> QED BY <1>8, <2>1, <2>3, <3>1
  <2>4. OnRecord'
    BY <1>2, <2>1, <2>3
  <2> QED BY <1>1, <1>3, <2>1, <2>2, <2>4
<1>11. ASSUME NEW t \in Senders, NEW w \in Warrants, FinalizeSenderWarrant(t, w)
       PROVE  Awaited' /\ OnRecord' /\ Reflected'
  <2>1. UNCHANGED <<net, answered, proof, sth>> /\ Posts' = Posts
    BY <1>11 DEF FinalizeSenderWarrant, Posts
  <2>2. \A v \in Warrants : /\ warrant[v].exec = "executed" => warrant'[v].exec = "executed"
                            /\ warrant'[v].exec = "ready" => warrant'[v] = warrant[v]
    BY <1>11 DEF FinalizeSenderWarrant, TypeInv
  <2> QED BY <1>1, <1>2, <1>3, <2>1, <2>2
<1>12. ASSUME NEW t \in Senders, NEW m \in net, NoticeAccept(t, m)
       PROVE  Awaited' /\ OnRecord' /\ Reflected'
  <2>1. sth[t].pc = "idle" /\ \E r : SStep(t, r)
    BY <1>12 DEF NoticeAccept, SIs
  <2> QED BY <1>4, <1>12, <1>a, <2>1 DEF NoticeAccept, Records
\* a notice that is refused was not of a request which its warrant still waits for
<1>13. ASSUME NEW t \in Senders, NoticeCheck(t) PROVE Awaited' /\ OnRecord' /\ Reflected'
  <2>1. sth[t].pc = "notice" /\ AtNotice(t) /\ UNCHANGED <<net, proof, warrant>> /\ \E r : SStep(t, r)
    BY <1>13 DEF NoticeCheck, SIs, AtNotice
  <2>2. \A u \in Senders, e \in Envelopes : Records(sth[u], e) => Records(sth'[u], e)
    BY <1>a, <2>1 DEF Records
  <2>3. CASE UNCHANGED answered
    BY <1>4, <2>1, <2>2, <2>3
  <2>4. CASE answered' = answered \cup {sth[t].n} /\ ~Applicable(t)
    <3>1. Posts' = Posts
      BY <2>1 DEF Posts
    <3>2. OnRecord'
      BY <1>2, <2>1, <2>2
    <3>3. ASSUME NEW e \in Envelopes \ hasty', NEW w \in Warrants, OnlyRequest(e, w)',
                 warrant'[w].exec = "ready"
          PROVE  Shows(e, w)'
      <4>1. OnlyRequest(e, w) /\ warrant[w].exec = "ready"
        BY <2>1, <3>3 DEF OnlyRequest, Requested
      <4>2. sth[t].e # e
        <5> SUFFICES ASSUME sth[t].e = e PROVE FALSE
          OBVIOUS
        <5>1. sth[t].w = w
          BY <2>1, <4>1, NoticeNames DEF OnlyRequest, NoticesInv, OneWarrant
        <5>2. <<w, e>> \notin proof
          BY <2>4, <4>1, <5>1 DEF Applicable
        <5>3. PICK u \in Senders : Records(sth[u], e)
          BY <4>1, <5>2 DEF OnRecord, OnlyRequest
        <5>4. Hears(sth[t], e)
          BY <2>1 DEF Hears
        <5> QED BY <5>3, <5>4 DEF Unhurried
      <4>3. \A u \in Receivers : Awaits(rth[u], e) => rth[u].n # sth[t].n
        BY <2>1, <4>2, SameNotice DEF Awaits
      <4> QED BY <1>0, <2>1, <2>4, <4>1, <4>3, StillShows
    <3> QED BY <1>1, <3>1, <3>2, <3>3 DEF Reflected
  <2> QED BY <1>13, <2>3, <2>4 DEF NoticeCheck
\* a notice that is applied is the one its poster waits for
<1>14. ASSUME NEW t \in Senders, NoticeApply(t) PROVE Awaited' /\ OnRecord' /\ Reflected'
  <2>1. /\ sth[t].pc = "checked" /\ AtNotice(t) /\ UNCHANGED <<net, proof>> /\ SStep(t, SIdle)
        /\ warrant' = [warrant EXCEPT ![sth[t].w].review = Reviewed(sth[t].d)]
        /\ answered' = answered \cup {sth[t].n}
    BY <1>14 DEF NoticeApply, SIs, AtNotice
  <2>2. \A u \in Senders, e \in Envelopes : Records(sth[u], e) => Records(sth'[u], e)
    BY <1>a, <2>1 DEF Records
  <2>3. /\ sth[t].e \in Envelopes /\ sth[t].w \in Warrants /\ Requested(sth[t].e, sth[t].w)
        /\ Notice(sth[t]) \in Posts /\ Notice(sth[t]).n = sth[t].n /\ sth[t].n \notin answered
    BY <2>1, NoticeNames DEF NoticesInv, Applying, Posts, Notice
  <2>4. \A w \in Warrants : /\ warrant'[w].exec = warrant[w].exec
                            /\ w # sth[t].w => warrant'[w] = warrant[w]
                            /\ w = sth[t].w => warrant'[w].review = Reviewed(sth[t].d)
    BY <2>1 DEF TypeInv
  <2>5. Posts' = Posts
    BY <2>1 DEF Posts
  <2>6. OnRecord'
    BY <1>2, <2>1, <2>2, <2>4
  <2>7. ASSUME NEW e \in Envelopes \ hasty', NEW w \in Warrants, OnlyRequest(e, w)',
               warrant'[w].exec = "ready"
        PROVE  Shows(e, w)'
    <3>1. OnlyRequest(e, w) /\ warrant[w].exec = "ready"
      BY <2>1, <2>4, <2>7 DEF OnlyRequest, Requested
    <3>2. CASE sth[t].e = e
      <4>1. sth[t].w = w
        BY <2>3, <3>1, <3>2 DEF OnlyRequest, NoticesInv, OneWarrant
      <4>2. PICK u \in Receivers : rth[u].pc = "notified" /\ rth[u].n = sth[t].n
        BY <2>3 DEF Awaited
      <4>3. Awaits(rth[u], e) /\ rth[u].d = sth[t].d
        BY <2>1, <3>2, <4>2, SameNotice DEF Awaits
      <4>4. \A v \in Receivers : Awaits(rth[v], e) => v = u
        BY <4>3 DEF Unhurried
      <4>5. rth[u].n \in answered'
        BY <2>1, <4>2
      <4>6. warrant'[w].review = Reviewed(rth[u].d)
        BY <2>4, <4>1, <4>3
      <4> QED BY <1>0, <4>3, <4>4, <4>5, <4>6 DEF Shows
    <3>3. CASE sth[t].e # e
      <4>1. sth[t].w # w
        BY <2>3, <3>1, <3>3 DEF OnlyRequest
      <4>2. \A u \in Receivers : Awaits(rth[u], e) => rth[u].n # sth[t].n
        BY <2>1, <3>3, SameNotice DEF Awaits
      <4> QED BY <1>0, <2>1, <2>4, <3>1, <4>1, <4>2, StillShows
    <3> QED BY <3>2, <3>3
  <2> QED BY <1>1, <2>5, <2>6, <2>7 DEF Reflected
<1>15. ASSUME NEW w \in Warrants, NEW d \in Decisions, ReviewSource(w, d) PROVE FALSE
  BY <1>15 DEF ReviewSource, TypeInv
<1>16. ASSUME NEW t \in Senders, SendFails(t) PROVE FALSE
  BY <1>0, <1>16 DEF SendFails
<1>17. ASSUME CrashSource PROVE FALSE
  BY <1>0, <1>17 DEF CrashSource
<1> QED
  BY <1>5, <1>6, <1>7, <1>9, <1>10, <1>11, <1>12, <1>13, <1>14, <1>15, <1>16, <1>17
     DEF SourceNext, SenderStep

LEMMA ReceiverReflects ==
    ASSUME TypeInv, JobsRequested, NoticesInv, ReceiverNext, Unhurried, hasty \subseteq hasty',
           Awaited, OnRecord, Reflected, Calm'
    PROVE  Awaited' /\ OnRecord' /\ Reflected'
<1>0. UNCHANGED <<warrant, proof, sth>> /\ ~lossy /\ crashes' = 0 /\ crashes = 0
  BY ReceiverFrame DEF source, Calm
<1>a. \A t \in Receivers : \A r : RStep(t, r) => \A u \in Receivers : rth'[u] = IF u = t THEN r ELSE rth[u]
  BY DEF RStep, TypeInv
<1>b. RIdle.pc = "idle" /\ \A u \in Receivers : rth[u] \in ReceiverThread /\ ReceiverThreadOK(rth[u])
  BY DEF RIdle, TypeInv
<1>c. OnRecord'
  <2>1. \A e \in Envelopes, w \in Warrants : Requested(e, w)' => Requested(e, w)
    BY ReceiverFrame
  <2> QED BY <1>0, <2>1 DEF OnRecord
\* nobody begins to wait for an answer, or stops
<1>1. ASSUME UNCHANGED net, answered' \cap Nat = answered \cap Nat,
             \A e \in Envelopes : job'[e].notice \in {None, job[e].notice},
             \A u \in Receivers : rth[u].pc = "notified" \/ rth'[u].pc = "notified" => rth'[u] = rth[u]
      PROVE  Awaited' /\ Reflected'
  <2>1. Posts' = Posts /\ \A m \in Posts : m.n \in Nat
    BY <1>1 DEF Posts, TypeInv, Requests, AnyNotices
  <2>2. Awaited'
    <3> SUFFICES ASSUME NEW m \in Posts, m.n \notin answered'
                 PROVE  \E u \in Receivers : rth'[u].pc = "notified" /\ rth'[u].n = m.n
      BY <2>1 DEF Awaited
    <3>1. PICK u \in Receivers : rth[u].pc = "notified" /\ rth[u].n = m.n
      BY <1>1, <2>1 DEF Awaited
    <3> QED BY <1>1, <3>1
  <2>3. ASSUME NEW e \in Envelopes \ hasty', NEW w \in Warrants, OnlyRequest(e, w)',
               warrant'[w].exec = "ready"
        PROVE  Shows(e, w)'
    <3>1. OnlyRequest(e, w)
      BY <1>1, <2>3 DEF OnlyRequest, Requested
    <3>2. \A u \in Receivers : Awaits(rth[u], e) \/ Awaits(rth'[u], e) => rth'[u] = rth[u]
      BY <1>1 DEF Awaits
    <3>3. \A u \in Receivers : rth[u].n \in answered' <=> rth[u].n \in answered
      BY <1>1, <1>b DEF ReceiverThread
    <3> QED BY <1>0, <1>1, <2>3, <3>1, <3>2, <3>3, StillShows
  <2> QED BY <2>2, <2>3 DEF Reflected
<1>2. ASSUME NEW t \in Receivers, rth[t].pc # "notified", NEW r, RStep(t, r), r.pc # "notified",
             UNCHANGED net, answered' \cap Nat = answered \cap Nat,
             \A e \in Envelopes : job'[e].notice \in {None, job[e].notice}
      PROVE  Awaited' /\ Reflected'
  BY <1>1, <1>2, <1>a
<1>3. ASSUME NEW t \in Receivers, NEW m \in net, RecvValidate(t, m) PROVE Awaited' /\ Reflected'
  <2> DEFINE r == [RIdle EXCEPT !.pc = "validated", !.e = m.e, !.w = m.w]
  <2>1. r.pc = "validated"
    BY DEF RIdle
  <2>2. RStep(t, r) /\ UNCHANGED <<net, job, answered>> /\ rth[t].pc = "idle"
    BY <1>3 DEF RecvValidate, RIs
  <2> HIDE DEF r
  <2> QED BY <1>2, <2>1, <2>2
<1>4. ASSUME NEW t \in Receivers, RecvAccept(t) PROVE Awaited' /\ Reflected'
  <2> DEFINE r == [rth[t] EXCEPT !.pc = "accepted"]
  <2>1. r.pc = "accepted"
    BY <1>b DEF ReceiverThread
  <2>2. RStep(t, r) /\ UNCHANGED <<net, job, answered>> /\ rth[t].pc = "validated"
    BY <1>4 DEF RecvAccept, RIs
  <2> HIDE DEF r
  <2> QED BY <1>2, <2>1, <2>2
<1>5. ASSUME NEW t \in Receivers, RecvIssue(t) \/ RecvQueue(t) PROVE Awaited' /\ Reflected'
  <2>1. /\ rth[t].pc \in {"accepted", "issued"} /\ UNCHANGED net
        /\ answered' = answered \/ answered' = answered \cup {rth[t].e}
    BY <1>5 DEF RecvIssue, RecvQueue, RIs
  <2>2. rth[t].e \in Envelopes
    BY <1>b, <2>1 DEF ReceiverThreadOK
  <2>3. answered' \cap Nat = answered \cap Nat
    BY <2>1, <2>2, HandoffAssumption
  <2>4. \A e \in Envelopes : job'[e].notice \in {None, job[e].notice}
    <3>1. \/ UNCHANGED job
          \/ job' = [job EXCEPT ![rth[t].e] = BlockedJob(rth[t].e, rth[t].w)]
          \/ \E j : job' = [job EXCEPT ![rth[t].e] = j] /\ j.notice = None
      BY <1>5 DEF RecvIssue, RecvQueue
    <3>2. BlockedJob(rth[t].e, rth[t].w).notice = None
      BY DEF BlockedJob, NoJob
    <3>3. UNCHANGED job \/ \E j : job' = [job EXCEPT ![rth[t].e] = j] /\ j.notice = None
      BY <3>1, <3>2
    <3> QED BY <2>2, <3>3 DEF TypeInv
  <2>5. [rth[t] EXCEPT !.pc = "issued", !.lw = issued + 1].pc = "issued"
    BY <1>b DEF ReceiverThread
  <2>6. \E r : RStep(t, r) /\ r.pc # "notified"
    <3>1. RStep(t, RIdle) \/ RStep(t, [rth[t] EXCEPT !.pc = "issued", !.lw = issued + 1])
      BY <1>5 DEF RecvIssue, RecvQueue
    <3> QED BY <1>b, <2>5, <3>1
  <2> QED BY <1>2, <2>1, <2>3, <2>4, <2>6
<1>6. ASSUME NEW t \in Receivers, NEW i, NEW d, LocalReview(t, i, d), rth[t].pc # "notified",
             UNCHANGED <<net, job, answered>>
      PROVE  Awaited' /\ Reflected'
  <2> DEFINE r == [RIdle EXCEPT !.pc = "reviewed", !.lw = i, !.d = d, !.saw = Reviewed(d)]
  <2>1. r.pc = "reviewed"
    BY DEF RIdle
  <2>2. RStep(t, r)
    BY <1>6 DEF LocalReview
  <2> HIDE DEF r
  <2> QED BY <1>2, <1>6, <2>1, <2>2
<1>7. ASSUME NEW t \in Receivers, NEW i \in LocalIds, NEW d \in Decisions, Review(t, i, d)
      PROVE  Awaited' /\ Reflected'
  BY <1>6, <1>7 DEF Review, RIs
<1>8. ASSUME NEW t \in Receivers, Hold(t) PROVE Awaited' /\ Reflected'
  BY <1>2, <1>6, <1>8, <1>b DEF Hold, RIs
<1>9. ASSUME NEW t \in Receivers, NEW i \in LocalIds \cup {0}, OpenCase(t, i)
      PROVE  Awaited' /\ Reflected'
  <2>1. [RIdle EXCEPT !.pc = "hold", !.lw = i].pc = "hold"
    BY DEF RIdle
  <2> QED BY <1>2, <1>9, <2>1 DEF OpenCase, RIs
<1>10. ASSUME NEW t \in Receivers, NEW s \in {"stayed", "resolved"}, ReviewCase(t, s)
       PROVE  Awaited' /\ Reflected'
  <2>1. [RIdle EXCEPT !.pc = "hold", !.lw = peerCase.lw].pc = "hold"
    BY DEF RIdle
  <2> QED BY <1>2, <1>10, <1>b, <2>1 DEF ReviewCase, RIs
<1>11. ASSUME CrashReceiver PROVE FALSE
  BY <1>0, <1>11 DEF CrashReceiver
<1>12. ASSUME NEW t \in Receivers, NotifyFails(t) PROVE FALSE
  BY <1>0, <1>12 DEF NotifyFails
<1>13. ASSUME NEW t \in Receivers, Sync(t) PROVE Awaited' /\ Reflected'
  <2>1. rth[t].pc = "reviewed" /\ UNCHANGED <<net, answered>>
    BY <1>13 DEF Sync, RIs
  <2>2. CASE RStep(t, RIdle) /\ UNCHANGED job
    BY <1>2, <1>b, <2>1, <2>2
  <2>3. ASSUME NEW e \in JobsOf(rth[t].lw), job' = [job EXCEPT ![e].state = JobStateFor(rth[t].saw)],
               RStep(t, [rth[t] EXCEPT !.pc = "synced", !.e = e, !.w = job[e].w, !.sent = job[e].notice])
        PROVE  Awaited' /\ Reflected'
    <3> DEFINE r == [rth[t] EXCEPT !.pc = "synced", !.e = e, !.w = job[e].w, !.sent = job[e].notice]
    <3>1. r.pc = "synced"
      BY <1>b DEF ReceiverThread
    <3>2. \A f \in Envelopes : job'[f].notice = job[f].notice
      BY <2>3 DEF JobsOf, TypeInv, Job
    <3>3. RStep(t, r)
      BY <2>3
    <3> HIDE DEF r
    <3> QED BY <1>2, <2>1, <3>1, <3>2, <3>3
  <2> QED BY <1>13, <2>2, <2>3 DEF Sync
<1>14. ASSUME NEW t \in Receivers, Notify(t) PROVE Awaited' /\ Reflected'
  <2>1. rth[t].pc = "synced" /\ UNCHANGED <<job, answered>>
    BY <1>14 DEF Notify, RIs
  <2>2. CASE RStep(t, RIdle) /\ UNCHANGED net
    BY <1>2, <1>b, <2>1, <2>2
  <2>3. CASE LocalReview(t, peerCase.lw, "stay") /\ UNCHANGED net
    BY <1>6, <2>1, <2>3
  <2>4. CASE /\ net' = net \cup {[type |-> "court_notice", e |-> rth[t].e, w |-> rth[t].w,
                                  n |-> NextNotice, d |-> rth[t].d]}
             /\ RStep(t, [rth[t] EXCEPT !.pc = "notified", !.n = NextNotice])
    <3> DEFINE r == [rth[t] EXCEPT !.pc = "notified", !.n = NextNotice]
               m == [type |-> "court_notice", e |-> rth[t].e, w |-> rth[t].w, n |-> NextNotice,
                     d |-> rth[t].d]
    <3>1. r.pc = "notified" /\ r.e = rth[t].e /\ r.n = NextNotice
      BY <1>b DEF ReceiverThread
    <3>2. RStep(t, r) /\ net' = net \cup {m} /\ m.type = "court_notice" /\ m.n = NextNotice
      BY <2>4
    <3> HIDE DEF r, m
    <3>3. Posts' = Posts \cup {m} /\ NextNotice \notin answered
      BY <3>2, NoticePosted DEF NoticesInv
    <3>4. \A u \in Receivers : rth'[u] = IF u = t THEN r ELSE rth[u]
      BY <1>a, <3>2
    <3>5. Awaited'
      <4>1. rth'[t].pc = "notified" /\ rth'[t].n = m.n
        BY <3>1, <3>2, <3>4
      <4>2. ASSUME NEW k \in Posts, k.n \notin answered
            PROVE  \E u \in Receivers : rth'[u].pc = "notified" /\ rth'[u].n = k.n
        <5>1. PICK u \in Receivers : rth[u].pc = "notified" /\ rth[u].n = k.n
          BY <4>2 DEF Awaited
        <5> QED BY <2>1, <3>4, <5>1
      <4> QED BY <2>1, <3>3, <4>1, <4>2 DEF Awaited
    <3>6. ASSUME NEW e \in Envelopes \ hasty', NEW w \in Warrants, OnlyRequest(e, w)',
                 warrant'[w].exec = "ready"
          PROVE  Shows(e, w)'
      <4>1. OnlyRequest(e, w) /\ warrant[w].exec = "ready"
        BY <1>0, <3>2, <3>6 DEF OnlyRequest, Requested
      <4>2. Shows(e, w)
        BY <3>6, <4>1 DEF Reflected
      <4>3. \A u \in Receivers : u # t => rth'[u] = rth[u]
        BY <3>4
      <4>4. ~Awaits(rth[t], e) /\ rth'[t].n \notin answered'
        BY <2>1, <3>1, <3>3, <3>4 DEF Awaits
      <4>5. \A u \in Receivers : Awaits(rth'[u], e) /\ rth'[u].n \in answered' =>
                warrant'[w].review = Reviewed(rth'[u].d)
        BY <1>0, <2>1, <4>2, <4>3, <4>4 DEF Shows
      <4>6. (\A u \in Receivers : Awaits(rth'[u], e) => rth'[u].n \notin answered') =>
                \A u \in Receivers : Awaits(rth[u], e) => rth[u].n \notin answered
        BY <2>1, <4>3, <4>4
      <4> QED BY <1>0, <2>1, <4>2, <4>5, <4>6 DEF Shows
    <3> QED BY <3>5, <3>6 DEF Reflected
  <2> QED BY <1>14, <2>2, <2>3, <2>4 DEF Notify
\* what the answered notice says is what the job records now
<1>15. ASSUME NEW t \in Receivers, Notified(t) PROVE Awaited' /\ Reflected'
  <2>1. /\ rth[t].pc = "notified" /\ rth[t].n \in answered /\ RStep(t, RIdle)
        /\ UNCHANGED <<net, answered>> /\ job' = [job EXCEPT ![rth[t].e].notice = rth[t].d]
    BY <1>15 DEF Notified, RIs
  <2>2. rth[t].e \in Envelopes
    BY <1>b, <2>1 DEF ReceiverThreadOK
  <2>3. \A e \in Envelopes : job'[e].notice = IF e = rth[t].e THEN rth[t].d ELSE job[e].notice
    BY <2>1, <2>2 DEF TypeInv, Job
  <2>4. \A u \in Receivers : rth'[u] = IF u = t THEN RIdle ELSE rth[u]
    BY <1>a, <2>1
  <2>5. Awaited'
    <3>1. Posts' = Posts
      BY <2>1 DEF Posts
    <3>2. ASSUME NEW m \in Posts, m.n \notin answered
          PROVE  \E u \in Receivers : rth'[u].pc = "notified" /\ rth'[u].n = m.n
      <4>1. PICK u \in Receivers : rth[u].pc = "notified" /\ rth[u].n = m.n
        BY <3>2 DEF Awaited
      <4> QED BY <2>1, <2>4, <3>2, <4>1
    <3> QED BY <2>1, <3>1, <3>2 DEF Awaited
  <2>6. ASSUME NEW e \in Envelopes \ hasty', NEW w \in Warrants, OnlyRequest(e, w)',
               warrant'[w].exec = "ready"
        PROVE  Shows(e, w)'
    <3>1. OnlyRequest(e, w) /\ warrant[w].exec = "ready" /\ e \notin hasty
      BY <1>0, <2>1, <2>6 DEF OnlyRequest, Requested
    <3>2. CASE e = rth[t].e
      <4>1. Awaits(rth[t], e) /\ \A u \in Receivers : Awaits(rth[u], e) => u = t
        BY <2>1, <3>1, <3>2 DEF Unhurried, Awaits
      <4>2. \A u \in Receivers : ~Awaits(rth'[u], e)
        BY <1>b, <2>4, <4>1 DEF Awaits
      <4>3. warrant[w].review = Reviewed(rth[t].d)
        BY <2>1, <3>1, <4>1 DEF Reflected, Shows
      <4>4. warrant'[w].review = Reviewed(job'[e].notice)
        BY <1>0, <2>3, <3>2, <4>3
      <4> QED BY <4>2, <4>4 DEF Shows
    <3>3. CASE e # rth[t].e
      <4>1. \A u \in Receivers : Awaits(rth[u], e) \/ Awaits(rth'[u], e) => rth'[u] = rth[u]
        BY <1>b, <2>4, <3>3 DEF Awaits
      <4> QED BY <1>0, <2>1, <2>3, <2>6, <3>1, <3>3, <4>1, StillShows
    <3> QED BY <3>2, <3>3
  <2> QED BY <2>5, <2>6 DEF Reflected
<1>16. Awaited' /\ Reflected'
  BY <1>3, <1>4, <1>5, <1>7, <1>8, <1>9, <1>10, <1>11, <1>12, <1>13, <1>14, <1>15
     DEF ReceiverNext, ReceiverStep
<1> QED BY <1>c, <1>16

LEMMA StepReflect ==
    TypeInv /\ RecordsInv /\ JobsRequested /\ NoticesInv /\ ReflectInv /\ [Next]_vars => ReflectInv'
<1>1. ASSUME ReflectInv, UNCHANGED vars PROVE ReflectInv'
  BY <1>1 DEF ReflectInv, Unhurried, Calm, Awaited, OnRecord, Reflected, OnlyRequest, Requested, Shows,
              Posts, Awaits, Hears, Records, vars, source, receiver
<1>2. ASSUME TypeInv, RecordsInv, JobsRequested, NoticesInv, ReflectInv, Next PROVE ReflectInv'
  <2>1. Unhurried' /\ hasty \subseteq hasty' /\ Unhurried
    BY <1>2, WatchHaste DEF Next, ReflectInv
  <2>2. ASSUME Calm', home' = 0 PROVE Calm /\ home = 0
    <3>1. home' = home \/ home' = home + 1
      BY <1>2 DEF Next, SourceNext, SenderStep, SendPost, SendAnswered, SendFails, SendMark, SendAudit,
                  NoticeCheck, NoticeApply, SendValidate, FinalizeSenderWarrant, NoticeAccept,
                  ReviewSource, CrashSource, ReceiverNext, ReceiverStep, RecvAccept, RecvIssue,
                  RecvQueue, Hold, Sync, Notify, Notified, NotifyFails, RecvValidate, Review, OpenCase,
                  ReviewCase, CrashReceiver
    <3>2. lossy' = lossy /\ (crashes' = 0 => crashes = 0)
      BY <1>2, SourceFrame, ReceiverFrame DEF Next
    <3> QED BY <1>2, <2>2, <3>1, <3>2 DEF Calm, TypeInv
  <2>3. ASSUME Calm', home' = 0 PROVE Awaited' /\ OnRecord' /\ Reflected'
    <3>1. Awaited /\ OnRecord /\ Reflected
      BY <1>2, <2>2, <2>3 DEF ReflectInv
    <3> QED BY <1>2, <2>1, <2>3, <3>1, SourceReflects, ReceiverReflects DEF Next
  <2> QED BY <2>1, <2>3 DEF ReflectInv
<1> QED BY <1>1, <1>2

LEMMA InitReflect == Init => NoticesInv /\ ReflectInv
<1> SUFFICES ASSUME Init PROVE NoticesInv /\ ReflectInv
  OBVIOUS
<1>1. /\ \A t \in Senders : sth[t].pc = "idle"
      /\ \A t \in Receivers : rth[t].pc = "idle"
      /\ \A e \in Envelopes : job[e].notice = None
      /\ net = {} /\ Posts = {} /\ sSeen = {} /\ answered = {}
  BY DEF Init, SIdle, RIdle, NoJob, Posts
<1>2. NoticesInv
  BY <1>1 DEF NoticesInv, Numbered, OneWarrant, Named, Waiting, Applying, AtNotice, Requested
<1>3. ReflectInv
  BY <1>1 DEF ReflectInv, Unhurried, Awaited, OnRecord, Reflected, OnlyRequest, Requested, Awaits, Hears
<1> QED BY <1>2, <1>3

\* In calm, with any number of handlers on both hosts, messages late, repeated and out of
\* order: where no handler waits for the answer to a notice, the warrant of a single
\* request shows the decision its job records as sent, unless notices of the request
\* crossed each other or the record of its delivery.
THEOREM SourceAlwaysReflects == Spec => []SourceReflectsReview
<1>1. Spec => [](TypeInv /\ RecordsInv /\ JobsRequested)
  BY InitTyped, InitRecords, InitSingle, StepTyped, StepRecords, StepJobs, PTL DEF Spec
<1>2. Spec => [](NoticesInv /\ ReflectInv)
  BY <1>1, InitReflect, StepNotices, StepReflect, PTL DEF Spec
<1>3. TypeInv /\ NoticesInv /\ ReflectInv => SourceReflectsReview
  <2> SUFFICES ASSUME TypeInv, NoticesInv, ReflectInv, NEW e \in Envelopes \ hasty, Calm, AtRest,
                      home = 0, job[e].notice # None, warrant[job[e].w].exec = "ready",
                      \A f \in Envelopes : Requested(f, job[e].w) => f = e
               PROVE  warrant[job[e].w].review = Reviewed(job[e].notice)
    BY DEF SourceReflectsReview
  <2>1. Requested(e, job[e].w)
    BY DEF NoticesInv, Named
  <2>2. job[e].w \in Warrants
    BY <2>1 DEF Requested, TypeInv, Requests, AnyNotices
  <2>3. Shows(e, job[e].w)
    BY <2>1, <2>2 DEF ReflectInv, Reflected, OnlyRequest
  <2> QED BY <2>3 DEF Shows, AtRest, RIs, Awaits
<1> QED BY <1>1, <1>2, <1>3, PTL
=============================================================================
