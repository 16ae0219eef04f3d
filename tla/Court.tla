--------------------------------- MODULE Court ---------------------------------
(***************************************************************************)
(* The court of one institution and the two stores its decisions touch:    *)
(* the sanction flags of the economy ledger and the agent registry.  A     *)
(* request is a list of steps on a thread; each step that writes a store   *)
(* first loads a copy of it (LoadStore), and every store is a plain JSON   *)
(* file that other requests, CLIs and scorers rewrite in the meantime. The *)
(* court records are loaded first and saved last: what a handler does to   *)
(* the ledger and to the registry happens in between.                      *)
(***************************************************************************)
EXTENDS Integers, Sequences

CONSTANTS
    Accused,
    Severities,   \* severities that violations are filed with, of 1 .. 6
    Clerks,
    INCIDENT_ELEVATED_THRESHOLD, INCIDENT_CRITICAL_THRESHOLD,
    MaxViolations, MaxAppeals,   \* bounds: records
    MaxOther,                    \* bound: registry requests and other ledger writes
    MaxBreaks                    \* bound: handlers that break off

ASSUME CourtAssumption == Severities \subseteq 1 .. 6

VARIABLES
    violations, appeals,   \* court_records.json
    ledger,                \* sanction flags of each agent in ledger.json
    registry,              \* agent_registry.json
    clerk,                 \* the threads that serve
    others, breaks

ctvars == <<violations, appeals, ledger, registry, clerk, others, breaks>>

Nothing == "none"
NoCopy == <<>>
VIds   == 1 .. MaxViolations
AIds   == 1 .. MaxAppeals

SEVERITY_SANCTIONS ==
    <<Nothing, Nothing, "probation", "lead_ban", "zero_authority", "remediation_only">>
Sanctions == {SEVERITY_SANCTIONS[s] : s \in 3 .. 6}
Live == {"open", "sanctioned", "appealed"}

NoViolation == [status |-> Nothing, a |-> Nothing, applied |-> Nothing]
NoAppeal    == [status |-> Nothing, v |-> 0]
AtRest == [op |-> Nothing, todo |-> <<>>, a |-> Nothing, sev |-> 0, v |-> 0, p |-> 0, d |-> Nothing,
         x |-> Nothing, flags |-> {}, rec |-> NoCopy, copy |-> NoCopy]

CtInit ==
    /\ violations = [v \in VIds |-> NoViolation]
    /\ appeals = [p \in AIds |-> NoAppeal]
    /\ ledger = [a \in Accused |-> {}]
    /\ registry = [a \in Accused |-> [risk |-> "nominal", count |-> 0, life |-> "active"]]
    /\ clerk = [t \in Clerks |-> AtRest]
    /\ others = 0 /\ breaks = 0

(***************************************************************************)
(* Threads.                                                                *)
(***************************************************************************)
Hearing(t) == clerk[t].todo # <<>>
Due(t, s) == Hearing(t) /\ Head(clerk[t].todo) = s
Writing(t, s) == Due(t, s) /\ clerk[t].copy # NoCopy
Proceed(t, r, rest) ==
    clerk' = [clerk EXCEPT ![t] = IF rest = <<>> THEN AtRest ELSE [r EXCEPT !.todo = rest, !.copy = NoCopy]]
Step(t, r) == Proceed(t, r, Tail(clerk[t].todo))
Refuse(t)  == Proceed(t, AtRest, <<>>)

LedgerSteps   == {"sanction", "lift", "liftAll", "other"}
RegistrySteps == {"incident", "nominal", "sync", "risk", "life"}
LoadStore(t) ==
    /\ Hearing(t) /\ Head(clerk[t].todo) \in LedgerSteps \cup RegistrySteps /\ clerk[t].copy = NoCopy
    /\ clerk' = [clerk EXCEPT ![t].copy = IF Head(clerk[t].todo) \in LedgerSteps THEN ledger ELSE registry]
    /\ UNCHANGED <<violations, appeals, ledger, registry, others, breaks>>

(***************************************************************************)
(* Court records: loaded at the start of a request, saved at its end.      *)
(***************************************************************************)
\* Mutant: decide_appeal takes an appeal that is already decided
Undecided_any(p) == appeals[p].status # Nothing
Undecided(p) == appeals[p].status = "pending"

Remediable(a) == \A v \in VIds : violations[v].a = a => violations[v].status \notin Live

\* what a handler checks when it loads the records
Admitted(r) ==
    CASE r.op = "file"      -> TRUE
      [] r.op \in {"resolve", "appeal"} -> violations[r.v].status # Nothing
      [] r.op = "decide"    -> Undecided(r.p)
      [] r.op = "remediate" -> Remediable(r.a)

LoadRecords(t) ==
    /\ Due(t, "records")
    /\ \/ /\ Admitted(clerk[t])
          /\ Step(t, [clerk[t] EXCEPT !.rec = [v |-> violations, p |-> appeals]])
       \/ ~Admitted(clerk[t]) /\ Refuse(t)
    /\ UNCHANGED <<violations, appeals, ledger, registry, others, breaks>>

StatusAfter(d, old) == CASE d = "overturned" -> "dismissed" [] d = "upheld" -> "sanctioned"
                         [] d = "dismissed" -> old

\* Mutant: the sanction is applied but not written into the violation
Filed_unsigned(r) == [status |-> "sanctioned", a |-> r.a, applied |-> Nothing]
Filed(r) == [status |-> IF r.x # Nothing THEN "sanctioned" ELSE "open", a |-> r.a, applied |-> r.x]

Fresh(store) == {i \in DOMAIN store : store[i].status = Nothing}

SaveFiled(t) ==
    /\ Due(t, "save") /\ clerk[t].op = "file"
    /\ violations' = [clerk[t].rec.v EXCEPT ![clerk[t].v] = Filed(clerk[t])]
    /\ appeals' = clerk[t].rec.p
    /\ Step(t, clerk[t])
    /\ UNCHANGED <<ledger, registry, others, breaks>>

SaveResolved(t) ==
    /\ Due(t, "save") /\ clerk[t].op = "resolve"
    /\ violations' = [clerk[t].rec.v EXCEPT ![clerk[t].v].status = "resolved"]
    /\ appeals' = clerk[t].rec.p
    /\ Step(t, clerk[t])
    /\ UNCHANGED <<ledger, registry, others, breaks>>

\* any violation can be appealed, again and again, whatever became of it
SaveAppeal(t) ==
    /\ Due(t, "save") /\ clerk[t].op = "appeal"
    /\ violations' = [clerk[t].rec.v EXCEPT ![clerk[t].v].status = "appealed"]
    /\ appeals' = [clerk[t].rec.p EXCEPT ![clerk[t].p] = [status |-> "pending", v |-> clerk[t].v]]
    /\ Step(t, clerk[t])
    /\ UNCHANGED <<ledger, registry, others, breaks>>

SaveDecided(t) ==
    LET v == clerk[t].rec.p[clerk[t].p].v IN
    /\ Due(t, "save") /\ clerk[t].op = "decide"
    /\ violations' = [clerk[t].rec.v EXCEPT ![v].status = StatusAfter(clerk[t].d, @)]
    /\ appeals' = [clerk[t].rec.p EXCEPT ![clerk[t].p].status = clerk[t].d]
    /\ Step(t, clerk[t])
    /\ UNCHANGED <<ledger, registry, others, breaks>>

(***************************************************************************)
(* The ledger.                                                             *)
(***************************************************************************)
\* file_violation: an exception here is printed and the violation stays open
Sanction(t) ==
    LET s == SEVERITY_SANCTIONS[clerk[t].sev] IN
    /\ Writing(t, "sanction")
    /\ ledger' = [clerk[t].copy EXCEPT ![clerk[t].a] = @ \cup {s}]
    /\ Step(t, [clerk[t] EXCEPT !.x = s])
    /\ UNCHANGED <<violations, appeals, registry, others, breaks>>

\* decide_appeal, overturned: the flag is lifted even if another violation set it too
Lift(t) ==
    LET v == clerk[t].rec.v[clerk[t].rec.p[clerk[t].p].v] IN
    /\ Writing(t, "lift")
    /\ \/ v.applied # Nothing /\ ledger' = [clerk[t].copy EXCEPT ![v.a] = @ \ {v.applied}]
       \/ v.applied = Nothing /\ UNCHANGED ledger
    /\ Step(t, clerk[t])
    /\ UNCHANGED <<violations, appeals, registry, others, breaks>>

\* the swallowed exception of either step: a torn read of ledger.json
LedgerFails(t) ==
    /\ Due(t, "sanction") \/ Due(t, "lift")
    /\ breaks < MaxBreaks /\ breaks' = breaks + 1
    /\ Step(t, clerk[t])
    /\ UNCHANGED <<violations, appeals, ledger, registry, others>>

LiftAll(t) ==
    /\ Writing(t, "liftAll")
    /\ \/ clerk[t].copy[clerk[t].a] # {} /\ ledger' = [clerk[t].copy EXCEPT ![clerk[t].a] = {}]
       \/ clerk[t].copy[clerk[t].a] = {} /\ UNCHANGED ledger
    /\ Step(t, clerk[t])
    /\ UNCHANGED <<violations, appeals, registry, others, breaks>>

\* a payout, a contribution or a scorer rewrites the whole ledger
OtherWrite(t) ==
    /\ Writing(t, "other")
    /\ ledger' = clerk[t].copy
    /\ Step(t, clerk[t])
    /\ UNCHANGED <<violations, appeals, registry, others, breaks>>

(***************************************************************************)
(* The agent registry.                                                     *)
(***************************************************************************)
Risk(count, old) ==
    IF count >= INCIDENT_CRITICAL_THRESHOLD THEN "critical"
    ELSE IF count >= INCIDENT_ELEVATED_THRESHOLD THEN "elevated" ELSE old

RecordIncident(t) ==
    LET r == clerk[t].copy[clerk[t].a] IN
    /\ Writing(t, "incident")
    /\ registry' = [clerk[t].copy EXCEPT ![clerk[t].a] =
                      [r EXCEPT !.count = r.count + 1, !.risk = Risk(r.count + 1, r.risk)]]
    /\ Step(t, clerk[t])
    /\ UNCHANGED <<violations, appeals, ledger, others, breaks>>

Nominal(t) ==
    /\ Writing(t, "nominal")
    /\ registry' = [clerk[t].copy EXCEPT ![clerk[t].a] = [@ EXCEPT !.risk = "nominal", !.count = 0]]
    /\ Step(t, clerk[t])
    /\ UNCHANGED <<violations, appeals, ledger, others, breaks>>

\* the two loads of sync_from_economy, the ledger's first
ReadLedger(t) ==
    /\ Due(t, "ledger")
    /\ Step(t, [clerk[t] EXCEPT !.flags = [a \in Accused |-> ledger[a]]])
    /\ UNCHANGED <<violations, appeals, ledger, registry, others, breaks>>

RiskOf(flags) ==
    IF flags \cap {"zero_authority", "remediation_only"} # {} THEN "critical"
    ELSE IF "probation" \in flags THEN "elevated" ELSE "nominal"

Sync(t) ==
    /\ Writing(t, "sync")
    /\ registry' = [a \in Accused |-> [clerk[t].copy[a] EXCEPT !.risk = RiskOf(clerk[t].flags[a])]]
    /\ Step(t, clerk[t])
    /\ UNCHANGED <<violations, appeals, ledger, others, breaks>>

SetRisk(t) ==
    /\ Writing(t, "risk")
    /\ registry' = [clerk[t].copy EXCEPT ![clerk[t].a].risk = clerk[t].d]
    /\ Step(t, clerk[t])
    /\ UNCHANGED <<violations, appeals, ledger, others, breaks>>

valid_transitions ==
    [active |-> {"quarantined", "decommissioned"}, quarantined |-> {"active", "decommissioned"},
     provisioned |-> {"active"}, decommissioned |-> {}]

TransitionLifecycle(t) ==
    LET allowed == clerk[t].d \in valid_transitions[clerk[t].copy[clerk[t].a].life] IN
    /\ Writing(t, "life")
    /\ \/ allowed /\ registry' = [clerk[t].copy EXCEPT ![clerk[t].a].life = clerk[t].d] /\ Step(t, clerk[t])
       \/ ~allowed /\ Refuse(t) /\ UNCHANGED registry
    /\ UNCHANGED <<violations, appeals, ledger, others, breaks>>

(***************************************************************************)
(* Requests.                                                               *)
(***************************************************************************)
Begin(t, r, todo) == ~Hearing(t) /\ clerk' = [clerk EXCEPT ![t] = [r EXCEPT !.todo = todo]]

\* ids are drawn by uuid: not in the store, nor with another thread
FreshV == {v \in Fresh(violations) : \A t \in Clerks : clerk[t].op = "file" => clerk[t].v # v}
FreshA == {p \in Fresh(appeals) : \A t \in Clerks : clerk[t].op = "appeal" => clerk[t].p # p}

File(t, a, sev) ==
    \E v \in FreshV :
        Begin(t, [AtRest EXCEPT !.op = "file", !.a = a, !.sev = sev, !.v = v],
              IF SEVERITY_SANCTIONS[sev] = Nothing THEN <<"records", "incident", "save">>
              ELSE <<"records", "sanction", "incident", "save">>)

Resolve(t, v) == Begin(t, [AtRest EXCEPT !.op = "resolve", !.v = v], <<"records", "save">>)

Appeal(t, v) ==
    \E p \in FreshA : Begin(t, [AtRest EXCEPT !.op = "appeal", !.v = v, !.p = p], <<"records", "save">>)

Decide(t, p, d) ==
    Begin(t, [AtRest EXCEPT !.op = "decide", !.p = p, !.d = d],
          IF d = "overturned" THEN <<"records", "lift", "save">> ELSE <<"records", "save">>)

RemediateSteps == <<"records", "liftAll", "nominal">>
Remediate(t, a) == Begin(t, [AtRest EXCEPT !.op = "remediate", !.a = a], RemediateSteps)

\* auto_review files one violation per change of its dry run, each as File does;
\* what it then applies to its own copy of the ledger is not saved
CourtRequest(t) ==
    /\ \/ \E a \in Accused : (\E s \in Severities : File(t, a, s)) \/ Remediate(t, a)
       \/ \E v \in VIds \ Fresh(violations) : Resolve(t, v) \/ Appeal(t, v)
       \/ \E p \in AIds \ Fresh(appeals), d \in {"upheld", "overturned", "dismissed"} : Decide(t, p, d)
    /\ UNCHANGED <<violations, appeals, ledger, registry, others, breaks>>

OtherRequest(t) ==
    /\ others < MaxOther /\ others' = others + 1
    /\ \/ Begin(t, AtRest, <<"other">>)
       \/ Begin(t, AtRest, <<"ledger", "sync">>)
       \/ \E a \in Accused :
             \/ \E r \in {"nominal", "suspended"} : Begin(t, [AtRest EXCEPT !.a = a, !.d = r], <<"risk">>)
             \/ \E l \in DOMAIN valid_transitions : Begin(t, [AtRest EXCEPT !.a = a, !.d = l], <<"life">>)
    /\ UNCHANGED <<violations, appeals, ledger, registry, breaks>>

Break(t) ==
    /\ Hearing(t) /\ breaks < MaxBreaks /\ breaks' = breaks + 1
    /\ clerk' = [clerk EXCEPT ![t] = AtRest]
    /\ UNCHANGED <<violations, appeals, ledger, registry, others>>

Handle(t) ==
    \/ LoadStore(t) \/ LoadRecords(t)
    \/ SaveFiled(t) \/ SaveResolved(t) \/ SaveAppeal(t) \/ SaveDecided(t)
    \/ Sanction(t) \/ Lift(t) \/ LedgerFails(t) \/ LiftAll(t) \/ OtherWrite(t)
    \/ RecordIncident(t) \/ Nominal(t) \/ ReadLedger(t) \/ Sync(t) \/ SetRisk(t)
    \/ TransitionLifecycle(t)

CtNext == \E t \in Clerks : Handle(t) \/ CourtRequest(t) \/ OtherRequest(t) \/ Break(t)
CtSpec == CtInit /\ [][CtNext]_ctvars

(***************************************************************************)
(* Properties.                                                             *)
(***************************************************************************)
AllIdle == \A t \in Clerks : ~Hearing(t)

\* A sanction leaves an agent only by an appeal, pending when it was decided, of
\* a violation that applied it, or when no violation of the agent is live; and its
\* incidents are forgotten only when, besides, no sanction of it is in force.
LiftedForReason ==
    [][\A a \in Accused :
          LET clear == \A v \in VIds : violations[v].a = a => violations[v].status \notin Live
          IN /\ \A s \in ledger[a] \ ledger'[a] :
                  \/ clear
                  \/ \E v \in VIds, p \in AIds :
                        /\ violations[v].a = a /\ violations[v].applied = s
                        /\ appeals[p].v = v /\ appeals[p].status = "pending"
             /\ registry[a].count > 0 /\ registry'[a].count = 0 => clear /\ ledger[a] = {}]_ctvars

\* At rest, unless a handler broke off, a sanction in force can be traced to a
\* violation on record, so that it can be appealed.
SanctionRecorded ==
    AllIdle /\ breaks = 0 => \A a \in Accused : \A s \in ledger[a] :
        \E v \in VIds : violations[v].a = a /\ violations[v].applied = s
=============================================================================
