------------------------------ MODULE Subscriptions ------------------------------
(***************************************************************************)
(* Subscriptions of one institution and the delivery of their briefs.      *)
(* subscriptions.json holds the records, the drafts, the delivery jobs and *)
(* the delivery log; every operation loads the whole file without a lock   *)
(* and saves the whole copy (only the write itself is locked).  Activation *)
(* from a preview is a chain of such operations and ends in a delivery run *)
(* that keeps its copy for as long as the capability takes.                *)
(* One thread is one workspace request.  Names, prices and topics are left *)
(* out; whether a channel exists for a job is part of whether it is sent.  *)
(***************************************************************************)
EXTENDS PreviewQueue, Sequences, FiniteSets

CONSTANTS
    Threads, Customers,
    Refs,                   \* payment references
    Ops,                    \* operations requested
    LogKept,                \* rows of the delivery log that are kept: 500 in the code
    MaxSubs, MaxRequests, MaxBreaks     \* bounds

None == "none"
ASSUME SubscriptionsAssumption ==
    /\ MaxSubs \in Nat /\ MaxRequests \in Nat /\ MaxBreaks \in Nat /\ LogKept \in Nat
    /\ None \notin Customers \cup Refs \cup Pilots
    /\ IsFiniteSet(Threads)
    /\ Ops \subseteq {"add", "convert", "verify", "cancel", "email", "record", "draft",
                      "activate", "run", "pending", "review"}

Subs == 1 .. MaxSubs        \* in the order they were created
NoRecord == [who |-> None, plan |-> None, status |-> None, ref |-> None, verified |-> FALSE]
Plans == {"trial", "paid", "single"}       \* single: a deep dive or a licence
TargetPlans == {"trial", "paid"}
Record == [who : Customers, plan : Plans,
           status : {"active", "converted", "cancelled"},
           ref : Refs \cup {None}, verified : BOOLEAN]
JobStates == {None, "queued", "ready", "executing", "executed", "blocked"}

EmptyFile == [subs |-> [s \in Subs |-> NoRecord], jobs |-> [s \in Subs |-> None],
              log |-> <<>>, drafts |-> {}]

VARIABLES
    file,       \* subscriptions.json
    payments,   \* references for which the revenue layer has payment evidence
    expired,    \* subscriptions past their expires_at
    th,         \* threads
    born,       \* subscriptions created, in order (history)
    sent,       \* briefs really dispatched for each subscription (history)
    heard,      \* of these, the ones a channel said it took (history)
    byId,       \* jobs that were run by their id, whatever their state (history)
    acked,      \* what saves have promised (history)
    alone,      \* whether no two requests have been served at once (history)
    requests, breaks

queues == <<pilots, previews>>
world == <<payments, expired>>
vars == <<queues, file, world, th, born, sent, heard, byId, acked, alone, requests, breaks>>

Idle == [op |-> None, who |-> None, plan |-> None, ref |-> None, confirm |-> FALSE,
         quote |-> None, sub |-> 0, todo |-> <<>>, copy |-> EmptyFile, delivered |-> FALSE]

Init ==
    /\ QueueInit
    /\ file = EmptyFile /\ payments = {} /\ expired = {}
    /\ th = [t \in Threads |-> Idle]
    /\ born = <<>> /\ sent = [s \in Subs |-> 0] /\ heard = [s \in Subs |-> 0] /\ byId = {} /\ acked = {}
    /\ alone = TRUE /\ requests = 0 /\ breaks = 0

Busy(t) == th[t].todo # <<>>
At(t, s) == Busy(t) /\ Head(th[t].todo) = s
Rest(t) == Tail(th[t].todo)
Continue(t, r, rest) ==
    th' = [th EXCEPT ![t] = IF rest = <<>> THEN Idle ELSE [r EXCEPT !.todo = rest]]

(***************************************************************************)
(* The operations on a loaded copy f.                                      *)
(***************************************************************************)
Of(f, who) == {s \in Subs : f.subs[s].who = who}
ActiveOf(f, who) == {s \in Of(f, who) : f.subs[s].status = "active"}
ActiveTrials(f, who) == {s \in ActiveOf(f, who) : f.subs[s].plan = "trial"}
ActivePaid(f, who) == {s \in ActiveOf(f, who) : f.subs[s].plan # "trial"}
First(S) == CHOOSE s \in S : \A u \in S : s <= u
Last(S) == CHOOSE s \in S : \A u \in S : s >= u

\* a reference given with the request replaces the recorded one
RefToVerify(r, f) ==
    IF r.ref # None THEN r.ref ELSE f.subs[Last(ActivePaid(f, r.who))].ref

Accepts(step, r, f) ==
    CASE step = "add" ->
            /\ r.plan = "trial" => \A s \in Of(f, r.who) : f.subs[s].plan # "trial"
            /\ r.plan # "trial" /\ r.confirm => r.ref \in payments
      [] step = "convert" -> ActiveTrials(f, r.who) # {}
      [] step = "verify"  -> ActivePaid(f, r.who) # {} /\ RefToVerify(r, f) \in payments
      [] step = "cancel"  -> ActiveOf(f, r.who) # {}
      [] step = "email"   -> Of(f, r.who) # {}
      [] OTHER            -> TRUE

Added(r) == [who |-> r.who, plan |-> r.plan, status |-> "active", ref |-> r.ref,
             verified |-> r.plan = "trial" \/ r.confirm]

\* the delivery log, of which the latest rows are kept: of a run for a subscription, or 0 of
\* record_delivery, which names no subscription and takes the caller's word
Logged(log, row) ==
    LET longer == Append(log, row)
    IN IF Len(longer) > LogKept THEN SubSeq(longer, Len(longer) - LogKept + 1, Len(longer)) ELSE longer
Rows(f, s) == Cardinality({i \in 1 .. Len(f.log) : f.log[i] = s})

\* Mutant: cancelling stops at the first active subscription
Edited_first(step, r, f) ==
    CASE step = "add" -> [f EXCEPT !.subs[Len(born) + 1] = Added(r)]
      [] step = "convert" -> [f EXCEPT !.subs[First(ActiveTrials(f, r.who))].status = "converted"]
      [] step = "verify" ->
            [f EXCEPT !.subs[Last(ActivePaid(f, r.who))] =
                [@ EXCEPT !.ref = RefToVerify(r, f), !.verified = TRUE]]
      [] step = "cancel" -> [f EXCEPT !.subs[First(ActiveOf(f, r.who))].status = "cancelled"]
      [] step = "draft" -> [f EXCEPT !.drafts = @ \cup {r.quote}]
      [] step = "queue" -> [f EXCEPT !.jobs[r.sub] = "queued"]
      [] step = "record" -> [f EXCEPT !.log = Logged(@, 0)]
      [] OTHER -> f
\* "stamp" and "email" write fields that are left out, and the whole file
Edited(step, r, f) ==
    CASE step = "add" -> [f EXCEPT !.subs[Len(born) + 1] = Added(r)]
      [] step = "convert" -> [f EXCEPT !.subs[First(ActiveTrials(f, r.who))].status = "converted"]
      [] step = "verify" ->
            [f EXCEPT !.subs[Last(ActivePaid(f, r.who))] =
                [@ EXCEPT !.ref = RefToVerify(r, f), !.verified = TRUE]]
      [] step = "cancel" ->
            [f EXCEPT !.subs = [s \in Subs |->
                IF s \in ActiveOf(f, r.who) THEN [f.subs[s] EXCEPT !.status = "cancelled"]
                ELSE f.subs[s]]]
      [] step = "draft" -> [f EXCEPT !.drafts = @ \cup {r.quote}]
      [] step = "queue" -> [f EXCEPT !.jobs[r.sub] = "queued"]
      [] step = "record" -> [f EXCEPT !.log = Logged(@, 0)]
      [] OTHER -> f

LoadEdits == {"add", "convert", "stamp", "verify", "cancel", "email", "record", "draft", "queue"}

\* load_subscriptions, the checks and the change of the copy; a check that fails
\* ends the request and has written nothing of this operation
LoadAndEdit(t) ==
    \E step \in LoadEdits :
        LET r == th[t]
            ok == Accepts(step, r, file)
            s == IF step = "add" THEN Len(born) + 1 ELSE r.sub
        IN /\ At(t, step)
           /\ \/ ok  /\ Continue(t, [r EXCEPT !.copy = Edited(step, r, file), !.sub = s], Rest(t))
              \/ ~ok /\ Continue(t, r, <<>>)
           /\ born' = IF ok /\ step = "add"
                      THEN Append(born, [who |-> r.who, quote |-> r.quote,
                                         earned |-> r.plan = "trial" \/ r.ref \in payments])
                      ELSE born
           /\ UNCHANGED <<queues, file, world, sent, heard, byId, acked, requests>>

Promised(r) ==
    CASE r.op = "cancel" -> {<<"cancelled", s>> : s \in {u \in Subs :
                                /\ file.subs[u].who = r.who /\ file.subs[u].status = "active"}}
      [] r.op = "verify" -> {<<"verified", Last(ActivePaid(r.copy, r.who))>>}
      [] r.sub > 0 /\ r.copy.subs[r.sub] # NoRecord -> {<<"added", r.sub>>}
      [] OTHER -> {}

\* save_subscriptions: the file becomes the copy
Save(t) ==
    /\ At(t, "save")
    /\ file' = th[t].copy
    /\ acked' = acked \cup Promised(th[t])
    /\ Continue(t, th[t], Rest(t))
    /\ UNCHANGED <<queues, world, born, sent, heard, byId, requests>>

(***************************************************************************)
(* Delivery runs.                                                          *)
(***************************************************************************)
\* the runner refuses an unknown job; without a capability the job is "ready",
\* with a failed preflight "blocked", otherwise it is saved as "executing"
StartRun(t) ==
    LET r == th[t]
        Begun(state) == [r EXCEPT !.copy = [file EXCEPT !.jobs[r.sub] = state], !.delivered = FALSE]
    IN /\ At(t, "start")
       /\ \/ /\ file.jobs[r.sub] = None
             /\ Continue(t, r, <<>>)
          \/ /\ file.jobs[r.sub] # None
             /\ \/ \E state \in {"ready", "blocked"} : Continue(t, Begun(state), <<"save">> \o Rest(t))
                \/ Continue(t, Begun("executing"), <<"save", "run", "save">> \o Rest(t))
       /\ UNCHANGED <<queues, file, world, born, sent, heard, byId, acked, requests>>

\* Mutant: a run that produced the artifact counts as delivered
Settled_artifact(f, s, outcome) ==
    IF outcome \in {"sent", "unsent"}
    THEN [f EXCEPT !.jobs[s] = "executed", !.log = Logged(@, s)]
    ELSE [f EXCEPT !.jobs[s] = "blocked"]
\* what the run leaves in the copy it loaded before it began
Settled(f, s, outcome) ==
    IF outcome = "sent" THEN [f EXCEPT !.jobs[s] = "executed", !.log = Logged(@, s)]
    ELSE [f EXCEPT !.jobs[s] = "blocked"]

Delivered(outcome) == outcome = "sent"
Outcomes == {"failed", "unsent", "late", "sent"}
More(count, s, yes) == IF yes THEN [count EXCEPT ![s] = @ + 1] ELSE count

\* failed: the capability or its artifact; unsent: no channel took the message; late: it
\* went out, but the call that sent it timed out or failed, and counts as unsent
Run(t) ==
    \E outcome \in Outcomes :
        LET r == th[t] IN
        /\ At(t, "run")
        /\ sent' = More(sent, r.sub, outcome \in {"late", "sent"})
        /\ heard' = More(heard, r.sub, outcome = "sent")
        /\ Continue(t, [r EXCEPT !.copy = Settled(r.copy, r.sub, outcome),
                                 !.delivered = Delivered(outcome)], Rest(t))
        /\ UNCHANGED <<queues, file, world, born, byId, acked, requests>>

\* Mutant: jobs left executing by a crash are taken up again
Pending_executing(f) == {s \in Subs : f.jobs[s] \in {"queued", "ready", "executing"}}
Pending(f) == {s \in Subs : f.jobs[s] \in {"queued", "ready"}}

\* run_pending_loom_delivery_jobs with the route's limit of one; the order of the
\* file's dictionary is any order
PickPending(t) ==
    /\ At(t, "pending")
    /\ \/ \E s \in Pending(file) : Continue(t, [th[t] EXCEPT !.sub = s], Rest(t))
       \/ Pending(file) = {} /\ Continue(t, th[t], <<>>)
    /\ UNCHANGED <<queues, file, world, born, sent, heard, byId, acked, requests>>

(***************************************************************************)
(* The preview queue's part of a request.                                  *)
(***************************************************************************)
GetQuote(t) ==
    /\ At(t, "quote")
    /\ \/ Quotable(th[t].quote)  /\ Continue(t, th[t], Rest(t))
       \/ ~Quotable(th[t].quote) /\ Continue(t, th[t], <<>>)
    /\ UNCHANGED <<queues, file, world, born, sent, heard, byId, acked, requests>>

Review(t) ==
    /\ \/ At(t, "ack")  /\ pilots' = Acknowledged(th[t].quote) /\ UNCHANGED previews
       \/ At(t, "list") /\ previews' = Quoted(th[t].quote) /\ UNCHANGED pilots
    /\ Continue(t, th[t], Rest(t))
    /\ UNCHANGED <<file, world, born, sent, heard, byId, acked, requests>>

\* the record the activation answers with is the copy's: it may be gone from the file
Mark(t) ==
    LET r == th[t] IN
    /\ \/ At(t, "markDrafted") /\ previews' = MarkDrafted(r.quote)
       \/ At(t, "markOutcome") /\ r.delivered /\ previews' = MarkDelivered(r.quote)
       \/ At(t, "markOutcome") /\ ~r.delivered
          /\ previews' = MarkActivated(r.quote, r.sub, TRUE)
    /\ Continue(t, r, Rest(t))
    /\ UNCHANGED <<pilots, file, world, born, sent, heard, byId, acked, requests>>

(***************************************************************************)
(* Requests.                                                               *)
(***************************************************************************)
Steps(op) ==
    CASE op = "convert"  -> <<"convert", "save", "add", "save", "stamp", "save">>
      [] op = "draft"    -> <<"quote", "draft", "save", "markDrafted">>
      [] op = "activate" -> <<"quote", "add", "save", "stamp", "save", "queue", "save",
                              "start", "markOutcome">>
      [] op = "run"      -> <<"start">>
      [] op = "pending"  -> <<"pending", "start">>
      [] op = "review"   -> <<"ack", "list">>
      [] OTHER           -> <<op, "save">>

\* Mutant: an activation does not insist on the payment
Confirmed_manual(op, plan) == op = "convert"
\* activation confirms the payment of any plan but a trial; add and convert as they are told
Confirmed(op, plan) == op = "activate" /\ plan # "trial"

\* requests that have yet to create their subscription
Adding == {t \in Threads : \E i \in DOMAIN th[t].todo : th[t].todo[i] = "add"}

Request(t) ==
    \E op \in Ops, who \in Customers, plan \in Plans, ref \in Refs \cup {None},
       asked \in BOOLEAN, p \in Pilots, s \in Subs :
        LET paying == op \in {"add", "convert", "activate"}
            quoting == op \in {"draft", "activate", "review"}
        IN /\ ~Busy(t) /\ requests < MaxRequests
           /\ paying => Len(born) + Cardinality(Adding) < MaxSubs
           \* an argument an operation does not take is fixed
           /\ ~quoting => p = CHOOSE q \in Pilots : TRUE
           /\ op # "run" => s = 1
           /\ op = "convert" => plan # "trial"
           /\ op \notin {"add", "activate", "convert"} => plan = "paid"
           /\ ~paying => ~asked
           /\ ~paying /\ op # "verify" => ref = None
           /\ plan = "trial" => ref = None /\ ~asked
           /\ op = "activate" /\ plan # "trial" => ref # None
           /\ th' = [th EXCEPT ![t] =
                [Idle EXCEPT !.op = op, !.who = who, !.plan = plan, !.ref = ref,
                             !.confirm = plan # "trial" /\ (Confirmed(op, plan) \/ asked),
                             !.quote = IF quoting THEN p ELSE None,
                             !.sub = IF op = "run" THEN s ELSE 0, !.todo = Steps(op)]]
           /\ byId' = IF op = "run" THEN byId \cup {s} ELSE byId
           /\ requests' = requests + 1
           /\ UNCHANGED <<queues, file, world, born, sent, heard, acked>>

CustomerPays(ref) ==
    /\ ref \notin payments
    /\ payments' = payments \cup {ref}
    /\ UNCHANGED <<queues, file, expired, th, born, sent, heard, byId, acked, alone, requests, breaks>>

Expire(s) ==
    /\ s \in 1 .. Len(born) /\ s \notin expired
    /\ expired' = expired \cup {s}
    /\ UNCHANGED <<queues, file, payments, th, born, sent, heard, byId, acked, alone, requests, breaks>>

Break(t) ==
    /\ Busy(t) /\ breaks < MaxBreaks
    /\ th' = [th EXCEPT ![t] = Idle]
    /\ breaks' = breaks + 1
    /\ UNCHANGED <<queues, file, world, born, sent, heard, byId, acked, alone, requests>>

Step(t) ==
    /\ \/ LoadAndEdit(t) \/ Save(t) \/ StartRun(t) \/ Run(t) \/ PickPending(t)
       \/ GetQuote(t) \/ Review(t) \/ Mark(t) \/ Request(t)
    /\ alone' = (alone /\ \A u \in Threads \ {t} : ~Busy(u))
    /\ UNCHANGED breaks

Next ==
    \/ \E t \in Threads : Step(t) \/ Break(t)
    \/ \E ref \in Refs : CustomerPays(ref)
    \/ \E s \in Subs : Expire(s)

Spec == Init /\ [][Next]_vars

(***************************************************************************)
(* Properties.                                                             *)
(***************************************************************************)

\* _subscription_delivery_eligible: what the delivery targets are made of
Eligible(f, s) ==
    /\ f.subs[s].status = "active" /\ s \notin expired /\ f.subs[s].plan \in TargetPlans
    /\ f.subs[s].plan = "trial" \/ (f.subs[s].verified /\ f.subs[s].ref \in payments)

\* A brief is only sent for a subscription that was paid for or a trial, however
\* requests overlap, and such a subscription is a delivery target for as long as it
\* is active, if its plan is one of those that have targets at all (a brief of another
\* plan is sent as well): run_loom_delivery_job looks at none of this, and relies on how
\* jobs come to be queued.  Nor does a preview name a subscription that was not activated
\* from it and paid for or a trial.
SentWasEarned ==
    /\ \A s \in Subs : sent[s] > 0 =>
        /\ born[s].earned
        /\ file.subs[s].status = "active" /\ s \notin expired /\ file.subs[s].plan \in TargetPlans
             => Eligible(file, s)
    /\ \A p \in Pilots : LET s == previews[p].sub
                         IN s > 0 => born[s].quote = p /\ born[s].earned

\* A job that nobody ran by its id sends at most one brief, over crashes too: the
\* runner of pending jobs never takes up a job that a crash left executing.  Needs
\* that requests do not overlap, for nothing claims a job.
AtMostOnce == alone => \A s \in Subs \ byId : sent[s] <= 1

\* The log never holds more runs for a subscription than briefs were sent, a job that calls
\* itself executed sent one, and so did a preview that calls itself fulfilled for the
\* subscription activated from it; and when every request was served alone and none broke
\* off, no job is left executing, and as long as the log was not cut it has every brief a
\* channel said it took. (What record_delivery logs is the caller's word, and a brief whose
\* dispatch timed out after it went is in no log.)
LoggedTruly ==
    /\ \A s \in Subs :
        /\ Rows(file, s) <= sent[s]
        /\ file.jobs[s] = "executed" => sent[s] > 0
    /\ \A p \in Pilots : previews[p].fulfilled =>
        \E s \in 1 .. Len(born) : born[s].quote = p /\ sent[s] > 0
    /\ alone /\ breaks = 0 /\ (\A t \in Threads : ~Busy(t)) =>
        \A s \in Subs : /\ file.jobs[s] # "executing"
                        /\ Len(file.log) < LogKept => Rows(file, s) = heard[s]

\* While requests do not overlap, what was saved stays: cancelled subscriptions are
\* cancelled, verified ones verified, and none disappears.
SavedStays ==
    alone => \A s \in Subs :
        /\ <<"cancelled", s>> \in acked => file.subs[s].status = "cancelled"
        /\ <<"verified", s>> \in acked => file.subs[s].verified
        /\ <<"added", s>> \in acked => file.subs[s] # NoRecord

=============================================================================
