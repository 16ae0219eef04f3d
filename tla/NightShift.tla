------------------------------- MODULE NightShift -------------------------------
(***************************************************************************)
(* The night shift: Loom schedules run the bridge once per job.  The jobs  *)
(* of one date share three files without a lock: the findings, the brief   *)
(* and the report, whose status lines the jobs merge by key.  The deliver  *)
(* job queues a Telegram delivery, which the gateway's drain sends.  A job *)
(* may run late, again, or beside another one.                             *)
(***************************************************************************)
EXTENDS ChannelDelivery

CONSTANTS Runs,                     \* bridge processes
          MaxBriefs, MaxJobs        \* bounds

Brief(v) == <<"brief", v>>
\* the gateway's own texts are not morning briefs, and those are remembered for good
ASSUME NightShiftAssumption ==
    /\ MaxBriefs \in Nat /\ MaxJobs \in Nat
    /\ \A v \in 1 .. MaxBriefs : Brief(v) \in Lasting /\ Brief(v) \notin Texts
NoBrief == <<"no brief", 0>>
Rest == [job |-> "none", v |-> 0, text |-> NoText, d |-> 0, match |-> FALSE]

VARIABLES
    findings,       \* whether the findings file holds findings
    brief,          \* the version in the brief file, 0 for none
    verdict,        \* the report's "aegis result" line
    js,             \* bridge processes
    judged,         \* version the verdict is about (history)
    accepted,       \* versions that QA accepted (history)
    drafts, jobs,
    apart           \* whether no two bridge processes ran at once (history)

nsvars == <<findings, brief, verdict, js, judged, accepted, drafts, jobs, apart>>
vars == <<chvars, nsvars>>

Init ==
    /\ ChInit
    /\ findings = FALSE /\ brief = 0 /\ verdict = "none"
    /\ js = [r \in Runs |-> Rest] /\ judged = 0 /\ accepted = {} /\ drafts = 0 /\ jobs = 0
    /\ apart = TRUE

Start(r, job, v, text) ==
    /\ "cron" \in cast /\ js[r] = Rest /\ jobs < MaxJobs /\ jobs' = jobs + 1
    /\ js' = [js EXCEPT ![r] = [Rest EXCEPT !.job = job, !.v = v, !.text = text,
                                            !.match = brief = judged]]
    /\ apart' = (apart /\ \A q \in Runs : js[q] = Rest)
Once(r) ==      \* a job that reads and writes its files at once
    /\ "cron" \in cast /\ js[r] = Rest /\ jobs < MaxJobs /\ jobs' = jobs + 1
    /\ UNCHANGED <<js, apart>>
Stop(r) == js' = [js EXCEPT ![r] = Rest] /\ UNCHANGED <<jobs, apart>>

\* the report of the date is written anew
Kickoff(r) ==
    /\ Once(r) /\ verdict' = "none"
    /\ UNCHANGED <<chvars, findings, brief, judged, accepted, drafts>>

\* a pipeline that fails only leaves a line in the report
Research(r) ==
    /\ Once(r) /\ findings' = TRUE
    /\ UNCHANGED <<chvars, brief, verdict, judged, accepted, drafts>>

\* the gateway writes a brief from the findings; without findings the job is skipped
StartWrite(r) ==
    /\ findings /\ drafts < MaxBriefs /\ Start(r, "write", drafts + 1, NoText)
    /\ drafts' = drafts + 1
    /\ UNCHANGED <<chvars, findings, brief, verdict, judged, accepted>>
\* _select_best_brief_text: the best candidate, or a synthesis, is always saved
FinishWrite(r) ==
    /\ js[r].job = "write" /\ Stop(r)
    /\ brief' \in {js[r].v, brief}          \* brief: the gateway run failed
    /\ UNCHANGED <<chvars, findings, verdict, judged, accepted, drafts>>

StartQa(r) ==
    /\ brief # 0 /\ Start(r, "qa", brief, NoText)
    /\ UNCHANGED <<chvars, findings, brief, verdict, judged, accepted, drafts>>
\* a version is accepted or rejected for good: the audit is a function of the text
FinishQa(r) ==
    /\ js[r].job = "qa" /\ Stop(r)
    /\ judged' = js[r].v
    /\ \/ verdict' = "accept" /\ accepted' = accepted \cup {js[r].v}
       \/ verdict' = "reject" /\ UNCHANGED accepted
    /\ UNCHANGED <<chvars, findings, brief, drafts>>

\* Mutant: a brief is delivered whatever QA said of it
StartDeliver_any(r) ==
    /\ Start(r, "deliver", brief, IF brief # 0 THEN Brief(brief) ELSE NoBrief)
    /\ UNCHANGED <<chvars, findings, brief, verdict, judged, accepted, drafts>>
StartDeliver(r) ==
    /\ Start(r, "deliver", brief,
             IF brief # 0 /\ verdict = "accept" THEN Brief(brief) ELSE NoBrief)
    /\ UNCHANGED <<chvars, findings, brief, verdict, judged, accepted, drafts>>

\* _send_channel_message: nothing is queued when a duplicate is known
Offer(r) ==
    /\ js[r].job = "deliver"
    /\ \/ Known(js[r].text) /\ Stop(r)
       \/ ~Known(js[r].text) /\ js' = [js EXCEPT ![r].job = "queue"] /\ UNCHANGED <<jobs, apart>>
    /\ UNCHANGED <<chvars, findings, brief, verdict, judged, accepted, drafts>>
QueueBrief(r) ==
    /\ js[r].job = "queue" /\ Queue("telegram", js[r].text)
    /\ js' = [js EXCEPT ![r].job = "wait", ![r].d = Fresh]
    /\ UNCHANGED <<cast, hs, drain, tidy, inbox, passed, seen, sent, torn, handled, lapsed, faults,
                   crashes, findings, brief, verdict, judged, accepted, drafts, jobs, apart>>
\* _wait_for_delivery: until the record is marked, or 30 seconds; then the hand-off
Handoff(r) ==
    /\ js[r].job = "wait" /\ Stop(r)
    /\ UNCHANGED <<chvars, findings, brief, verdict, judged, accepted, drafts>>

Job(r) ==
    \/ Kickoff(r) \/ Research(r) \/ StartWrite(r) \/ FinishWrite(r) \/ StartQa(r) \/ FinishQa(r)
    \/ StartDeliver(r) \/ Offer(r) \/ QueueBrief(r) \/ Handoff(r)

Next == (ChNext /\ UNCHANGED nsvars) \/ \E r \in Runs : Job(r)

\* The drain thread runs for as long as the gateway does (its loop catches every
\* error), time passes, and Loom's commands fail only so often (MaxFaults).
Spec == Init /\ [][Next]_vars
        /\ WF_vars(DrainThread /\ UNCHANGED nsvars)
        /\ \A d \in Ids : WF_vars(Age(d) /\ UNCHANGED nsvars)

---------------------------------------------------------------------------
(***************************************************************************)
(* Properties                                                              *)
(***************************************************************************)
\* A morning brief is on its way only if QA accepted it, unless another was written between
\* the QA that accepted and the delivery (then the acceptance is about a text that is gone);
\* and however often the deliver job runs it reaches the chat once, as long as bridge
\* processes do not overlap: the check of the bridge, the drain's own and the unlimited
\* window of briefs agree.
AcceptedShownOnce ==
    /\ \A r \in Runs : js[r].job \in {"queue", "wait"} /\ js[r].text = Brief(js[r].v) /\ js[r].match
          => js[r].v \in accepted
    /\ apart => \A v \in 1 .. MaxBriefs :
          LET of == {d \in Made : recs[d].text = Brief(v)}
          IN Cardinality({d \in of : sent[d] > 0}) <= 1 \/ \E d \in of : d \in torn
=============================================================================
