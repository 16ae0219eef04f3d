------------------------------ MODULE Commitments ------------------------------
(***************************************************************************)
(* Commitments, the cases that dispute them and the warrants a case holds, *)
(* on one host.  An HTTP request or a received envelope runs on a thread   *)
(* as a list of steps ("todo"), each of which reads one JSON store or      *)
(* reads, edits and rewrites it whole.  No store is locked: Load keeps the *)
(* copy a thread read, and a later step writes the edited copy back, so it *)
(* may undo what another thread wrote in between.                          *)
(* Reading a store that its handler only inspects is one step.             *)
(***************************************************************************)
EXTENDS Naturals, Sequences

CONSTANTS
    Ids,          \* commitment ids a request may name
    Paid,         \* those with an executed payout proposal linked to them
    Warrants,     \* warrants that federation sends and cases may name
    Foreign,      \* ids of cases of the peer host, named by its case notices
    Threads,      \* handler threads
    MaxCases,     \* bound: cases opened
    MaxRequests,  \* bound: operator requests
    MaxNotices,   \* bound: received envelopes
    MaxBreaks     \* bound: handlers that break off (crash, torn read, exception)

ASSUME CommitmentsAssumption ==
    /\ Paid \subseteq Ids
    /\ MaxCases \in Nat /\ MaxRequests \in Nat /\ MaxNotices \in Nat /\ MaxBreaks \in Nat
    /\ "none" \notin Ids \cup Warrants \cup Foreign

VARIABLES
    cms,       \* commitments.json
    cases,     \* the case store (SQLite, rewritten whole by every save)
    warrant,   \* warrants.json
    inbox,     \* inbox entries of commitment messages
    outbox,    \* execution requests posted
    th,        \* threads
    opened,    \* number of case ids drawn
    ruled,     \* history: warrants an operator has reviewed
    alone,     \* history: whether no two requests have been served at once
    undone,    \* history: whether a save of warrants.json wrote back a copy that was out of date
    requests, notices, breaks

vars == <<cms, cases, warrant, inbox, outbox, th, opened, ruled, alone, undone, requests, notices, breaks>>
bounds == <<requests, notices, breaks>>

None    == "none"
NoCopy  == <<>>
CaseIds == 1 .. MaxCases
Reported == "commitment_breach"  \* metadata.source of a case ensure_case_for_commitment_breach opens
Kinds   == {"breach_of_commitment", "invalid_settlement_notice"}

BLOCKING_CASE_STATES == {"open", "stayed"}
PEER_SUSPENSION_CLAIM_TYPES == {"invalid_settlement_notice"}

\* state_map of review_commitment and of review_case
StateMap(d) ==
    CASE d = "accept" -> "accepted" [] d = "reject" -> "rejected" [] d = "breach" -> "breached"
      [] d = "stay" -> "stayed" [] d = "resolve" -> "resolved" [] d = "open" -> "open"

\* own: the warrant the record itself names; dw: that of its last delivery
NoCommitment == [state |-> None, ref |-> FALSE, dw |-> None, own |-> None]
NoCase == [status |-> None, kind |-> None, c |-> None, w |-> None, origin |-> None]
Idle == [todo |-> <<>>, by |-> None, c |-> None, k |-> 0, kind |-> None, w |-> None,
         d |-> None, origin |-> None, copy |-> NoCopy]

Init ==
    /\ cms = [c \in Ids |-> NoCommitment]
    /\ cases = [k \in CaseIds |-> NoCase]
    /\ warrant = [w \in Warrants |-> [review |-> "approved", exec |-> "ready"]]
    /\ inbox = {} /\ outbox = {}
    /\ th = [t \in Threads |-> Idle]
    /\ opened = 0 /\ ruled = {} /\ alone = TRUE /\ undone = FALSE /\ requests = 0 /\ notices = 0 /\ breaks = 0

(***************************************************************************)
(* Threads.                                                                *)
(***************************************************************************)
Busy(t)    == th[t].todo # <<>>
Current(t) == Head(th[t].todo)
WarrantSteps == {"hold", "finalize", "warrantReview", "spend"}
StoreOf(s) == CASE s \in {"propose", "review", "ref", "settle", "delivery"} -> cms
                [] s \in {"open", "caseReview", "mirror"}                   -> cases
                [] s \in WarrantSteps                                       -> warrant

\* the thread is at step s of its list, with the copy it edits if it writes
At(t, s)      == Busy(t) /\ Current(t) = s
Writing(t, s) == At(t, s) /\ th[t].copy # NoCopy

\* the thread leaves its step with record r and carries on with rest
Continue(t, r, rest) ==
    th' = [th EXCEPT ![t] = IF rest = <<>> THEN Idle ELSE [r EXCEPT !.todo = rest, !.copy = NoCopy]]
Stop(t)    == Continue(t, Idle, <<>>)
Step(t, r) == Continue(t, r, Tail(th[t].todo))

WriteSteps == {"propose", "review", "ref", "settle", "delivery", "open", "caseReview",
               "mirror"} \cup WarrantSteps
Load(t) ==
    /\ Busy(t) /\ Current(t) \in WriteSteps /\ th[t].copy = NoCopy
    /\ th' = [th EXCEPT ![t].copy = StoreOf(Current(t))]
    /\ UNCHANGED <<cms, cases, warrant, inbox, outbox, opened, ruled, bounds>>

(***************************************************************************)
(* Commitments.                                                            *)
(***************************************************************************)
\* a record under the given id is replaced, whatever it was
Propose(t) ==
    /\ Writing(t, "propose")
    /\ cms' = [th[t].copy EXCEPT ![th[t].c] = [NoCommitment EXCEPT !.state = "proposed", !.own = th[t].w]]
    /\ Step(t, th[t])
    /\ UNCHANGED <<cases, warrant, inbox, outbox, opened, ruled, bounds>>

\* review_commitment: any decision on any existing record
Review(t) ==
    /\ Writing(t, "review")
    /\ \/ /\ th[t].copy[th[t].c].state # None
          /\ cms' = [th[t].copy EXCEPT ![th[t].c].state = StateMap(th[t].d)]
          /\ Step(t, th[t])
       \/ th[t].copy[th[t].c].state = None /\ Stop(t) /\ UNCHANGED cms
    /\ UNCHANGED <<cases, warrant, inbox, outbox, opened, ruled, bounds>>

RecordSettlementRef(t) ==
    /\ Writing(t, "ref")
    /\ \/ /\ th[t].copy[th[t].c].state # None
          /\ cms' = [th[t].copy EXCEPT ![th[t].c].ref = TRUE]
          /\ Step(t, th[t])
       \/ th[t].copy[th[t].c].state = None /\ Stop(t) /\ UNCHANGED cms
    /\ UNCHANGED <<cases, warrant, inbox, outbox, opened, ruled, bounds>>

\* settle_commitment; the warrant of the last delivery is read from the record
\* it returns
Settle(t) ==
    LET c == th[t].c IN
    /\ Writing(t, "settle")
    /\ \/ /\ th[t].copy[c].state # None
          /\ cms' = [th[t].copy EXCEPT ![c].state = "settled"]
          /\ Step(t, [th[t] EXCEPT !.w = th[t].copy[c].dw])
       \/ th[t].copy[c].state = None /\ Stop(t) /\ UNCHANGED cms
    /\ UNCHANGED <<cases, warrant, inbox, outbox, opened, ruled, bounds>>

RecordDeliveryRef(t) ==
    /\ Writing(t, "delivery")
    /\ \/ /\ th[t].copy[th[t].c].state # None
          /\ cms' = [th[t].copy EXCEPT ![th[t].c].dw = th[t].w]
          /\ Step(t, th[t])
       \/ th[t].copy[th[t].c].state = None /\ Stop(t) /\ UNCHANGED cms
    /\ UNCHANGED <<cases, warrant, inbox, outbox, opened, ruled, bounds>>

(***************************************************************************)
(* Cases and the holds they put on warrants.                               *)
(***************************************************************************)
Active(k) == cases[k].status \in BLOCKING_CASE_STATES
Blocking(c) == {k \in CaseIds : Active(k) /\ cases[k].c = c}
BlockingPeer == {k \in CaseIds : Active(k) /\ cases[k].kind \in PEER_SUSPENSION_CLAIM_TYPES}

\* the active cases that ensure_case_for_commitment_breach or
\* ensure_case_for_delivery_failure would reuse
Existing(t) ==
    {k \in CaseIds : /\ Active(k) /\ cases[k].kind = th[t].kind /\ cases[k].c = th[t].c
                     /\ th[t].kind = "breach_of_commitment" \/ cases[k].w = th[t].w}

Ensure(t) ==
    /\ At(t, "ensure")
    /\ \/ \E k \in Existing(t) : Step(t, [th[t] EXCEPT !.k = k, !.w = cases[k].w])
       \/ Existing(t) = {} /\ Continue(t, th[t], <<"open">> \o Tail(th[t].todo))
    /\ UNCHANGED <<cms, cases, warrant, inbox, outbox, opened, ruled, bounds>>

OpenCase(t) ==
    /\ Writing(t, "open") /\ opened < MaxCases
    /\ cases' = [th[t].copy EXCEPT ![opened + 1] =
                   [status |-> "open", kind |-> th[t].kind, c |-> th[t].c, w |-> th[t].w,
                    origin |-> th[t].origin]]
    /\ opened' = opened + 1
    /\ Step(t, [th[t] EXCEPT !.k = opened + 1])
    /\ UNCHANGED <<cms, warrant, inbox, outbox, ruled, bounds>>

\* review_case: the status is replaced whatever it was
ReviewCase(t) ==
    LET k == th[t].k IN
    /\ Writing(t, "caseReview")
    /\ \/ /\ th[t].copy[k].status # None
          /\ cases' = [th[t].copy EXCEPT ![k].status = StateMap(th[t].d)]
          /\ Step(t, [th[t] EXCEPT !.w = th[t].copy[k].w])
       \/ th[t].copy[k].status = None /\ Stop(t) /\ UNCHANGED cases
    /\ UNCHANGED <<cms, warrant, inbox, outbox, opened, ruled, bounds>>

\* a case notice looks for the mirrored case; a stay or a resolve needs one
FindMirror(t) ==
    LET found == {k \in CaseIds : cases[k].origin = th[t].origin} IN
    /\ At(t, "find")
    /\ \/ \E k \in found : Step(t, [th[t] EXCEPT !.k = k])
       \/ /\ found = {} /\ th[t].d = "open"
          /\ Continue(t, th[t], <<"open", "hold">>)
       \/ found = {} /\ th[t].d # "open" /\ Stop(t)
    /\ UNCHANGED <<cms, cases, warrant, inbox, outbox, opened, ruled, bounds>>

\* the mirrored row is replaced by what the notice says, in a store loaded anew
Mirror(t) ==
    /\ Writing(t, "mirror")
    /\ cases' = [th[t].copy EXCEPT ![th[t].k] =
                   [status |-> StateMap(th[t].d), kind |-> th[t].kind, c |-> th[t].c, w |-> th[t].w,
                    origin |-> th[t].origin]]
    /\ Step(t, th[t])
    /\ UNCHANGED <<cms, warrant, inbox, outbox, opened, ruled, bounds>>

Holdable(r) == r.exec = "ready" /\ r.review \notin {"stayed", "revoked"}

\* _maybe_stay_warrant_for_case
Hold(t) ==
    LET w == th[t].w IN
    /\ Writing(t, "hold")
    /\ \/ /\ w # None /\ Holdable(th[t].copy[w])
          /\ warrant' = [th[t].copy EXCEPT ![w].review = "stayed"]
       \/ ~(w # None /\ Holdable(th[t].copy[w])) /\ UNCHANGED warrant
    /\ Step(t, th[t])
    /\ UNCHANGED <<cms, cases, inbox, outbox, opened, ruled, bounds>>

ReviewWarrant(t) ==
    /\ Writing(t, "warrantReview")
    /\ warrant' = [th[t].copy EXCEPT ![th[t].w].review = th[t].d]
    /\ ruled' = ruled \cup {th[t].w}
    /\ Step(t, th[t])
    /\ UNCHANGED <<cms, cases, inbox, outbox, opened, bounds>>

\* _maybe_finalize_sender_warrant_for_commitment, no review state consulted
Finalize(t) ==
    LET w == th[t].w IN
    /\ Writing(t, "finalize")
    /\ \/ w # None /\ th[t].copy[w].exec = "ready"
          /\ warrant' = [th[t].copy EXCEPT ![w].exec = "executed"]
       \/ ~(w # None /\ th[t].copy[w].exec = "ready") /\ UNCHANGED warrant
    /\ Step(t, th[t])
    /\ UNCHANGED <<cms, cases, inbox, outbox, opened, ruled, bounds>>

\* mark_warrant_executed at the end of a send that names no commitment
Spend(t) ==
    LET w == th[t].w IN
    /\ Writing(t, "spend")
    /\ \/ /\ th[t].copy[w].exec = "ready"
          /\ warrant' = [th[t].copy EXCEPT ![w].exec = "executed"]
       \/ th[t].copy[w].exec # "ready" /\ UNCHANGED warrant
    /\ Step(t, th[t])
    /\ UNCHANGED <<cms, cases, inbox, outbox, opened, ruled, bounds>>

(***************************************************************************)
(* Checks a handler makes before it acts.                                  *)
(***************************************************************************)
Settleable(s) == s \in {"accepted", "settled"}
\* a record that names a warrant of its own is used under no other
Names(r, w) == w = None \/ r.own \in {None, w}

\* validate_commitment_for_settlement, before a received notice is applied
ValidateSettlement(t) ==
    /\ At(t, "validate")
    /\ \/ Settleable(cms[th[t].c].state) /\ Names(cms[th[t].c], th[t].w) /\ Step(t, th[t])
       \/ ~(Settleable(cms[th[t].c].state) /\ Names(cms[th[t].c], th[t].w)) /\ Stop(t)
    /\ UNCHANGED <<cms, cases, warrant, inbox, outbox, opened, ruled, bounds>>

\* _maybe_block_commitment_settlement: the case found is enforced on its warrant
CheckCase(t) ==
    /\ At(t, "check")
    /\ \/ \E k \in Blocking(th[t].c) :
             Continue(t, [th[t] EXCEPT !.k = k, !.w = cases[k].w], <<"hold">>)
       \/ Blocking(th[t].c) = {} /\ Step(t, th[t])
    /\ UNCHANGED <<cms, cases, warrant, inbox, outbox, opened, ruled, bounds>>

\* validate_warrant_for_execution of a send
CheckWarrant(t) ==
    LET r == warrant[th[t].w] IN
    /\ At(t, "warrant")
    /\ \/ r.review = "approved" /\ r.exec = "ready" /\ Step(t, th[t])
       \/ ~(r.review = "approved" /\ r.exec = "ready") /\ Stop(t)
    /\ UNCHANGED <<cms, cases, warrant, inbox, outbox, opened, ruled, bounds>>

\* validate_commitment_for_delivery
CheckAccepted(t) ==
    /\ At(t, "accepted")
    /\ \/ cms[th[t].c].state = "accepted" /\ Names(cms[th[t].c], th[t].w) /\ Step(t, th[t])
       \/ ~(cms[th[t].c].state = "accepted" /\ Names(cms[th[t].c], th[t].w)) /\ Stop(t)
    /\ UNCHANGED <<cms, cases, warrant, inbox, outbox, opened, ruled, bounds>>

\* _blocking_case_for_delivery
BlockingDelivery(c) == IF c # None /\ Blocking(c) # {} THEN Blocking(c) ELSE BlockingPeer

CheckDelivery(t) ==
    /\ At(t, "clear")
    /\ \/ \E k \in BlockingDelivery(th[t].c) :
             Continue(t, [th[t] EXCEPT !.k = k, !.w = cases[k].w], <<"hold">>)
       \/ BlockingDelivery(th[t].c) = {} /\ Step(t, th[t])
    /\ UNCHANGED <<cms, cases, warrant, inbox, outbox, opened, ruled, bounds>>

\* the post: answered, lost, or answered with an invalid receipt (which opens a case)
Post(t) ==
    /\ At(t, "post")
    /\ outbox' = outbox \cup {[c |-> th[t].c, w |-> th[t].w]}
    /\ \/ Step(t, th[t])
       \/ Stop(t)
       \/ Continue(t, [th[t] EXCEPT !.kind = "invalid_settlement_notice"], <<"ensure", "hold">>)
    /\ UNCHANGED <<cms, cases, warrant, inbox, opened, ruled, bounds>>

(***************************************************************************)
(* Requests of operators and envelopes of the peer.                        *)
(***************************************************************************)
Start(t, r, todo) == ~Busy(t) /\ th' = [th EXCEPT ![t] = [r EXCEPT !.todo = todo]]
User   == [Idle EXCEPT !.by = "user"]
Sender == [Idle EXCEPT !.by = "peer"]

\* Mutant: the settlement reference and state are written before the cases are consulted
SettleSteps_late(c) == IF c \in Paid THEN <<"ref", "settle", "check">> ELSE <<"settle", "check">>
SettleSteps(c) == IF c \in Paid THEN <<"check", "ref", "settle">> ELSE <<"check", "settle">>

\* Mutant: the settlement reference of the notice is not recorded
NoticeSteps_unproved == <<"validate", "check", "settle", "finalize">>
NoticeSteps == <<"validate", "check", "ref", "settle", "finalize">>

\* Mutant: opening a case does not hold the warrant it names
OpenSteps_free == <<"open">>
OpenSteps == <<"open", "hold">>

CommitmentRequest(t, c) ==
    \/ \E w \in Warrants \cup {None} : Start(t, [User EXCEPT !.c = c, !.w = w], <<"propose">>)
    \/ \E d \in {"accept", "reject", "breach"} :
          Start(t, [User EXCEPT !.c = c, !.d = d], <<"review">>)
    \/ Start(t, [User EXCEPT !.c = c, !.d = "breach", !.kind = "breach_of_commitment", !.origin = Reported],
             <<"review", "ensure", "hold">>)
    \/ Start(t, [User EXCEPT !.c = c], SettleSteps(c))
    \/ \E w \in Warrants :
          Start(t, [User EXCEPT !.c = c, !.w = w],
                <<"warrant", "accepted", "clear", "post", "delivery">>)

\* a send that names no commitment spends its warrant at once
BareSend(t) ==
    \E w \in Warrants : Start(t, [User EXCEPT !.w = w], <<"warrant", "clear", "post", "spend">>)

CaseRequest(t) ==
    \/ \E kind \in Kinds, c \in Ids \cup {None}, w \in Warrants \cup {None} :
          Start(t, [User EXCEPT !.c = c, !.w = w, !.kind = kind], OpenSteps)
    \/ \E k \in 1 .. opened :
          \/ Start(t, [User EXCEPT !.k = k, !.d = "stay"], <<"caseReview", "hold">>)
          \/ Start(t, [User EXCEPT !.k = k, !.d = "resolve"], <<"caseReview">>)

Request(t) ==
    /\ requests < MaxRequests /\ requests' = requests + 1
    /\ \/ \E c \in Ids : CommitmentRequest(t, c)
       \/ BareSend(t) \/ CaseRequest(t)
       \/ \E w \in Warrants, d \in {"approved", "stayed", "revoked"} :
             Start(t, [User EXCEPT !.w = w, !.d = d], <<"warrantReview">>)
    /\ UNCHANGED <<cms, cases, warrant, inbox, outbox, opened, ruled, notices, breaks>>

\* a settlement notice that passes adapter preflight, or one that does not
SettlementNotice(t, c) ==
    \E w \in Warrants \cup {None} :
        \/ Start(t, [Sender EXCEPT !.c = c, !.w = w], NoticeSteps)
        \/ Start(t, [Sender EXCEPT !.c = c, !.w = w, !.kind = "invalid_settlement_notice"],
                 <<"validate", "check", "ensure">>)

CaseNotice(t, f) ==
    \E c \in Ids \cup {None}, w \in Warrants \cup {None}, kind \in Kinds :
        \/ \E d \in {"open", "stay"} :
              Start(t, [Sender EXCEPT !.c = c, !.w = w, !.kind = kind, !.d = d, !.origin = f],
                    <<"find", "mirror", "hold">>)
        \/ Start(t, [Sender EXCEPT !.c = c, !.w = w, !.kind = kind, !.d = "resolve", !.origin = f],
                 <<"find", "mirror">>)

Notice(t) ==
    /\ notices < MaxNotices /\ notices' = notices + 1
    /\ \/ (\E c \in Ids : SettlementNotice(t, c)) /\ UNCHANGED inbox
       \/ (\E f \in Foreign : CaseNotice(t, f)) /\ UNCHANGED inbox
       \/ \* a commitment message: the entry is stored as received, then the call of
          \* mirror_federated_commitment with two positional arguments raises
          /\ ~Busy(t) /\ UNCHANGED th
          /\ \E c \in Ids : inbox' = inbox \cup {c}
    /\ UNCHANGED <<cms, cases, warrant, outbox, opened, ruled, requests, breaks>>

Break(t) ==
    /\ Busy(t) /\ breaks < MaxBreaks
    /\ breaks' = breaks + 1
    /\ th' = [th EXCEPT ![t] = Idle]
    /\ UNCHANGED <<cms, cases, warrant, inbox, outbox, opened, ruled, requests, notices>>

Handle(t) ==
    \/ Load(t)
    \/ Propose(t) \/ Review(t) \/ RecordSettlementRef(t) \/ Settle(t) \/ RecordDeliveryRef(t)
    \/ Ensure(t) \/ OpenCase(t) \/ ReviewCase(t) \/ FindMirror(t) \/ Mirror(t)
    \/ Hold(t) \/ ReviewWarrant(t) \/ Finalize(t) \/ Spend(t)
    \/ ValidateSettlement(t) \/ CheckCase(t) \/ CheckWarrant(t) \/ CheckAccepted(t)
    \/ CheckDelivery(t) \/ Post(t)

\* a thread leaves a step that saves warrants.json, and others saved it since its load
Outdated(t) == /\ Busy(t) /\ Current(t) \in WarrantSteps /\ th[t].copy \notin {NoCopy, warrant}
               /\ th'[t] # th[t] /\ warrant' # warrant
Watch ==
    /\ alone' = (alone /\ \A t, u \in Threads : Busy(t)' /\ Busy(u)' => t = u)
    /\ undone' = (undone \/ \E t \in Threads : Outdated(t))

Next == (\E t \in Threads : Handle(t) \/ Request(t) \/ Notice(t) \/ Break(t)) /\ Watch
\* a handler that has started runs on: nothing it calls waits without a limit
Fairness == \A t \in Threads : WF_vars(Handle(t) /\ Watch)
Spec == Init /\ [][Next]_vars /\ Fairness

(***************************************************************************)
(* Properties.                                                             *)
(***************************************************************************)
Disputed(c) == c # None /\ \E k \in CaseIds : cases[k].status \in {"open", "stayed"} /\ cases[k].c = c

\* While a case on it is open or stayed, a commitment is not settled, by an operator
\* or by a notice of the peer, and no execution request leaves under it; nor does any
\* to a peer with an active suspension case (ARCHITECTURE.md: the active case state
\* blocks commitment settlement). While requests do not overlap: a case opened between
\* the check and the settlement comes too late.
CasesBlock ==
    [][alone =>
       /\ \A c \in Ids : cms[c].state # "settled" /\ cms'[c].state = "settled" => ~Disputed(c)
       /\ \A m \in outbox' \ outbox : ~Disputed(m.c)
       /\ outbox' # outbox => BlockingPeer = {}]_vars

InOrder ==
    /\ \A c \in Ids, t \in Threads :
          /\ At(t, "settle") /\ th[t].by = "peer" /\ th[t].c = c
          /\ cms[c].state # "settled" /\ cms'[c].state = "settled"
          => cms[c].state = "accepted"
    /\ \A w \in Warrants : warrant[w].exec # warrant'[w].exec =>
          /\ warrant[w].exec = "ready"
          /\ \/ /\ [c |-> None, w |-> w] \in outbox
                /\ \E t \in Threads : At(t, "spend") /\ th[t].w = w
             \/ \E c \in Ids : cms[c].state = "settled" /\ cms[c].ref /\ cms[c].dw = w

\* A received settlement notice settles only a commitment that was accepted; and a
\* warrant is executed only once: by a send that names no commitment, when its request was
\* posted and answered, or for a commitment that is settled on a recorded proof and whose
\* last delivery carried that warrant. While requests do not overlap.
SettledInOrder == [][alone => InOrder]_vars

\* A case opened on a warrant that no operator has ruled on takes hold of it and keeps it,
\* whatever threads overwrite in the other stores: in the end the warrant is stayed or
\* executed, or the case is no longer open, unless a handler broke off or one that saved
\* warrants.json wrote back a copy older than another's save (that save may be about
\* another warrant: the file is saved whole).
Unruled(k) == cases[k].status = "open" /\ cases[k].w \in Warrants \ ruled
              /\ cases[k].kind = "breach_of_commitment"
Taken(k) ==
    \/ ~Unruled(k) \/ breaks > 0 \/ undone
    \/ warrant[cases[k].w].review = "stayed" \/ warrant[cases[k].w].exec = "executed"
OpenCaseHolds == \A k \in CaseIds : Unruled(k) ~> []Taken(k)
=============================================================================
