----------------------------- MODULE TeamDelivery -----------------------------
(***************************************************************************)
(* One request through the gateway's team route: the plan, the specialists *)
(* one after the other, the manager's answer or what stands in for it, the *)
(* repair of that answer and the verdict on its quality.  Meanwhile the    *)
(* court may restrict an agent.  The steps and the answer live in memory.  *)
(*                                                                         *)
(* A text is "none", "good" (it has the sections the matched skill asks    *)
(* for), "plain" (other prose), "scope" (a design document), "error" (the  *)
(* reason of a failure), "pass" or "fail" (of the QA gate) or "unable"     *)
(* (the manager's apology).  A warning is "info", "gap", "runtime",        *)
(* "blocker" or "other", as the classifiers see it.                        *)
(***************************************************************************)
EXTENDS RouteScore

CONSTANTS Requests, Loads, Restrictions, MaxRestrictions

Lanes == {"none", "council", "internal", "operator", "positioning"}
ASSUME RequestAssumption == \A r \in Requests : r.lane \in Lanes /\ r.writer \in BOOLEAN

VARIABLES
    req, load,
    restricted,     \* the agents the court keeps from executing, assigned or leading
    unread,         \* the agents whose entry cannot be read while the plan is made
    plan,           \* mode, reason, workers
    steps,          \* receipts of the specialists
    shown,          \* the step whose text was given to the QA gate (history)
    at,             \* route, work, answer, repair, assess, done
    answer,         \* its text, the step it is taken from (0: the manager) and how
    quality,
    barred          \* the agents restricted when the plan was made (history)

tdvars == <<req, load, restricted, unread, plan, steps, shown, at, answer, quality, barred>>

NoPlan == [mode |-> "none", reason |-> "none", workers |-> <<>>]
NoAnswer == [text |-> "none", step |-> 0, how |-> "none"]

TdInit ==
    /\ req \in Requests /\ load \in Loads /\ restricted \in Restrictions
    /\ unread \in SUBSET restricted
    /\ plan = NoPlan /\ steps = <<>> /\ shown = 0 /\ at = "route"
    /\ answer = NoAnswer /\ quality = "none" /\ barred = {}

---------------------------------------------------------------------------
(***************************************************************************)
(* The plan                                                                *)
(***************************************************************************)
\* Mutant: an agent is dropped for being listed twice only, not for a restriction
Choose_open(ws) ==
    LET taken[n \in 0 .. Len(ws)] ==
            IF n = 0 THEN <<>>
            ELSE IF \E i \in DOMAIN taken[n - 1] : taken[n - 1][i] = ws[n] THEN taken[n - 1]
            ELSE Append(taken[n - 1], ws[n])
    IN taken[Len(ws)]
\* _worker_is_restricted: an agent whose entry of the ledger cannot be read counts as free
FoundRestricted == restricted \ unread
\* _normalize_worker_selection: restricted agents are dropped; AEGIS stands in for SENTINEL
StandIn(w) == IF w = "SENTINEL" /\ w \in FoundRestricted THEN "AEGIS" ELSE w
With(q, w) ==
    IF w \in FoundRestricted \/ (\E i \in DOMAIN q : q[i] = w) THEN q ELSE Append(q, w)
Choose(ws) ==
    LET taken[n \in 0 .. Len(ws)] ==
            IF n = 0 THEN <<>> ELSE With(taken[n - 1], StandIn(ws[n]))
    IN taken[Len(ws)]
\* for a question of Meridian's place only these stay, and the first two are added
Positioning(ws) ==
    LET kept[n \in 0 .. Len(ws)] ==
            IF n = 0 THEN <<>>
            ELSE IF ws[n] \in {"QUILL", "AEGIS", "PULSE"} THEN Append(kept[n - 1], ws[n]) ELSE kept[n - 1]
    IN With(With(kept[Len(ws)], "QUILL"), "AEGIS")

Fallback(r) == Choose(<<"ATLAS", "AEGIS">> \o (IF r.writer THEN <<"QUILL">> ELSE <<>>))

\* Mutant: the gate comes before the writer
Refine_early(r, ws) ==
    CASE r.skill \in {"protocol", "meeting"} -> Choose(<<"QUILL", "AEGIS">>)
      [] r.skill = "questionnaire" -> Choose(<<"ATLAS", "QUILL", "AEGIS">>)
      [] r.skill \in {"watch", "web", "customer", "competitor"} ->
            Choose(<<"ATLAS", "AEGIS">> \o (IF r.writer THEN <<"QUILL">> ELSE <<>>))
      [] OTHER -> Choose(ws)
\* _refine_skill_routed_workers
Refine(r, ws) ==
    CASE r.skill \in {"protocol", "meeting"} -> Choose(<<"QUILL", "AEGIS">>)
      [] r.skill = "questionnaire" \/ (r.skill \in {"watch", "web", "customer"} /\ r.writer) ->
            Choose(<<"ATLAS", "QUILL", "AEGIS">>)
      [] r.skill \in {"watch", "web"} \/ (r.skill = "competitor" /\ ~r.writer) ->
            Choose(<<"ATLAS", "AEGIS">>)
      [] r.skill = "customer" -> Choose(<<"ATLAS">>)
      [] OTHER -> Choose(ws)

\* AUTONOMY_WORKER_PROFILES, SKILL_WORKER_HINTS: the workers of the one matched skill,
\* or the usual ones
Seed(r) == CASE r.skill = "ops" -> <<"FORGE", "PULSE">>
             [] r.skill \in {"mail", "follow"} -> <<"QUILL", "AEGIS">>
             [] r.skill = "competitor" -> <<"ATLAS", "AEGIS">>
             [] r.skill = "other" -> <<"FORGE", "QUILL", "AEGIS">>
             [] OTHER -> Fallback(r)
Candidates(r) == LET ws == Refine(r, Seed(r)) IN IF ws = <<>> THEN Fallback(r) ELSE ws

\* _skill_route_should_activate
SkillRoute(r) == r.skill # "none" /\ (r.action \/ (r.proven /\ (r.short \/ r.top >= 8)))

Team(reason, ws) == [mode |-> "team", reason |-> reason, workers |-> ws]
Direct(reason) == [mode |-> "direct", reason |-> reason, workers |-> <<>>]

LanePlan(r) ==
    CASE r.lane = "council" ->
            Team("council", Choose(<<"ATLAS", "SENTINEL", "QUILL", "AEGIS", "FORGE", "PULSE">>))
      [] r.lane = "internal" -> [Direct("internal") EXCEPT !.mode = "internal_status"]
      [] r.lane = "operator" -> Team("operator", Choose(<<"FORGE", "QUILL", "AEGIS">>))
      [] r.lane = "positioning" -> Team("positioning", Positioning(Choose(<<"QUILL", "AEGIS">>)))

Sure(r) == SureDirect(r, load, Candidates(r))
SkillPlan(r) ==
    IF Sure(r) THEN Direct("sure") ELSE Team("skill", Refine(r, Seed(r)))

WithWriter(r, ws) ==
    IF r.writer /\ \A i \in DOMAIN ws : ws[i] # "QUILL" THEN Append(ws, "QUILL") ELSE ws

\* what the planning model says, and what stands in for it when it says nothing
PlannerPlans(r) ==
    LET asked(ws) == IF Choose(ws) = <<>> THEN Fallback(r) ELSE Choose(ws)
        teams == {Team("planner", WithWriter(r, asked(ws))) :
                    ws \in {<<>>, <<"ATLAS", "QUILL">>, <<"SENTINEL", "PULSE">>, <<"AEGIS", "QUILL">>}}
    IN {IF TeamWins(r, load, Candidates(r)) \/ ~r.short THEN Team("fallback", Fallback(r))
        ELSE Direct("fallback"),
        Direct("planner")}
       \cup (IF Sure(r) /\ r.short THEN {Direct("override")} ELSE teams)

Plans(r) ==
    IF r.lane # "none" THEN {LanePlan(r)}
    ELSE IF SkillRoute(r) THEN {SkillPlan(r)}
    ELSE IF Sure(r) /\ r.short THEN {Direct("sure")}
    ELSE PlannerPlans(r)

\* _team_route_plan and its trace
Route ==
    /\ at = "route"
    /\ plan' \in Plans(req)
    /\ barred' = restricted
    /\ at' = IF plan'.mode = "team" THEN "work" ELSE "answer"
    /\ UNCHANGED <<req, load, restricted, unread, steps, shown, answer, quality>>

---------------------------------------------------------------------------
(***************************************************************************)
(* What a text is good for                                                 *)
(***************************************************************************)
Shaped(r) == r.skill \notin {"none", "other", "ops"}
\* _artifact_matches_skill_shape
Fits(text) == text \notin {"none", "scope"} /\ (Shaped(req) => text = "good")
\* _final_artifact_is_usable
FinalUsable(text) == Shaped(req) /\ text = "good"
TaskKind(w) == CASE w = "ATLAS" -> "research" [] w = "SENTINEL" -> "verify"
                 [] w = "FORGE" -> "execute" [] w = "QUILL" -> "write"
                 [] w = "AEGIS" -> "qa_gate" [] w = "PULSE" -> "compress"
Status(step) == IF step.error \/ step.text = "none" THEN "error" ELSE "ok"

\* _step_has_usable_artifact
StepUsable(step) ==
    /\ Status(step) = "ok" /\ step.by # "AEGIS"
    /\ step.text \in {"good", "plain"}

\* _step_artifact_fit_score (the points for citations, confidence and length left out)
FitScore(step) ==
    LET kind == TaskKind(step.by)
    IN IF step.text = "none" THEN -100
       ELSE (IF Status(step) = "ok" THEN 8 ELSE -30)
            + (IF Fits(step.text) THEN 40 ELSE Points(FinalUsable(step.text), 24))
            - Points(step.text = "scope", 40)
            + Points(kind = "write", 8) + Points(kind = "research", 3)
            - Points(kind \in {"verify", "qa_gate"}, 8)
            + (IF Protocol(req) THEN Points(kind = "write", 12) + Points(step.by = "FORGE", 2) ELSE 0)
            + Points(Customer(req) /\ kind = "research", 12)
            + Points(req.skill \in {"web", "competitor"} /\ kind = "research", 6)
            - Points("blocker" \in step.warns, 50) - Points("runtime" \in step.warns, 25)
            - Points("gap" \in step.warns, 5) - Points("other" \in step.warns, 2)

\* _best_usable_step_artifact: the first step of the highest score, if that is positive
Best(ss) ==
    LET top == {i \in DOMAIN ss : /\ FitScore(ss[i]) > 0
                                  /\ \A j \in DOMAIN ss : FitScore(ss[j]) <= FitScore(ss[i])}
    IN IF top = {} THEN 0 ELSE CHOOSE i \in top : \A j \in top : i <= j
TextOf(i) == IF i = 0 THEN "none" ELSE steps[i].text

\* _salvage_user_artifact: a template for every skill that has sections, but web research
Salvaged == IF Shaped(req) /\ req.skill # "web" THEN "good" ELSE "none"

---------------------------------------------------------------------------
(***************************************************************************)
(* The specialists (_run_specialist_step)                                  *)
(***************************************************************************)
Receipt(w, text, warns) == [by |-> w, text |-> text, warns |-> warns, error |-> FALSE]

\* a status question is answered from the verified facts
Facts(w) == {Receipt(w, IF w = "AEGIS" THEN "pass" ELSE "plain", ws) : ws \in {{"info"}, {"gap"}}}
FactsMode == req.skill = "ops" \/ plan.reason = "operator"

\* ATLAS searches the web, or fetches the one page it was given
WebFetch == {Receipt("ATLAS", "good", {"info"}), Receipt("ATLAS", "good", {"other"})}
Salvages(text, failed) ==
    \/ req.skill = "competitor" /\ (text # "good" \/ failed)
    \/ Customer(req) /\ (text # "good" \/ failed)
Research ==
    {IF Salvages(text, text = "error")
     THEN Receipt("ATLAS", "good", (IF text = "error" THEN {"runtime"} ELSE {}) \cup {"info"})
     ELSE Receipt("ATLAS", text, IF text = "error" THEN {"runtime"}
                                 ELSE IF text = "none" THEN {"gap"} ELSE {}) :
        text \in {"good", "plain", "error", "none"}}

\* AEGIS is shown the best artifact so far
Gate == {Receipt("AEGIS", "pass", {}), Receipt("AEGIS", "fail", {"gap"}),
         Receipt("AEGIS", "fail", {"other"}),
         [Receipt("AEGIS", "error", {"runtime"}) EXCEPT !.error = TRUE]}

\* the others ask Loom, or a provider first and Loom next, or Loom first and a provider next
Loom(w) == {Receipt(w, "plain", {}), Receipt(w, "good", {}), Receipt(w, "scope", {}),
            Receipt(w, "error", {"runtime"}), Receipt(w, "error", {"blocker"}), Receipt(w, "none", {})}
Recovered(receipt) ==       \* the provider answers where Loom did not
    {receipt} \cup
    (IF receipt.by \in {"ATLAS", "QUILL", "PULSE"} /\ receipt.text \in {"error", "none"}
     THEN {[receipt EXCEPT !.text = t,
                           !.warns = IF "blocker" \in @ THEN {"blocker"} ELSE {"other"}] :
              t \in {"plain", "good"}}
     ELSE {})
Rewritten(receipt) ==       \* QUILL's drift is replaced by a template
    IF /\ receipt.by = "QUILL" /\ Salvaged = "good"
       /\ \/ receipt.text = "scope" \/ req.skill = "follow"
          \/ req.skill = "meeting" /\ receipt.text # "good"
    THEN [receipt EXCEPT !.text = "good", !.warns = @ \cup {"info"}] ELSE receipt
Generic(w) ==
    LET provider == IF w \in {"QUILL", "AEGIS"} /\ FastLane(req)
                    THEN {Receipt(w, t, {"info"}) : t \in {"plain", "good", "scope"}} ELSE {}
    IN {Rewritten(x) : x \in provider \cup UNION {Recovered(y) : y \in Loom(w)}}

Inside == plan.reason \in {"council", "positioning", "operator"}
Receipts(w) ==
    IF FactsMode /\ w # "ATLAS" THEN Facts(w)
    ELSE IF w = "ATLAS" /\ ~Inside THEN (IF req.skill = "web" THEN WebFetch ELSE Research)
    ELSE IF w = "AEGIS" THEN Gate
    ELSE Generic(w)

Work ==
    /\ at = "work" /\ Len(steps) < Len(plan.workers)
    /\ LET w == plan.workers[Len(steps) + 1]
       IN /\ \E x \in Receipts(w) : steps' = Append(steps, x)
          /\ shown' = IF w = "AEGIS" THEN Best(steps) ELSE shown
    /\ UNCHANGED <<req, load, restricted, unread, plan, at, answer, quality, barred>>
WorkDone ==
    /\ at = "work" /\ Len(steps) = Len(plan.workers) /\ at' = "answer"
    /\ UNCHANGED <<req, load, restricted, unread, plan, steps, shown, answer, quality, barred>>

---------------------------------------------------------------------------
(***************************************************************************)
(* The manager                                                             *)
(***************************************************************************)
\* _qa_gate_allows_manager_fastpath
GatePassed ==
    LET gates == {i \in DOMAIN steps : steps[i].by = "AEGIS" /\ Status(steps[i]) = "ok"}
    IN gates # {} /\ \A i \in gates : steps[i].text # "fail"
                                    /\ steps[i].warns \cap {"blocker", "runtime"} = {}

\* _manager_fastpath_artifact
FastPath ==
    LET best == Best(steps)
        fits == best # 0 /\ Fits(TextOf(best))
        take(how) == {[text |-> TextOf(best), step |-> best, how |-> how]}
    IN IF Customer(req) /\ ~req.writer
       THEN IF fits THEN take("best") ELSE {[text |-> "good", step |-> 0, how |-> "starter"]}
       ELSE IF req.skill \in {"questionnaire", "watch"} /\ fits THEN take("best")
       ELSE IF GatePassed /\ req.skill \in {"competitor", "web"} /\ fits THEN take("gated")
       ELSE {}

\* _manager_synthesis without its fast path
Synthesis ==
    {[text |-> t, step |-> 0, how |-> "manager"] : t \in {"good", "plain"}}
    \cup {IF Best(steps) # 0 THEN [text |-> TextOf(Best(steps)), step |-> Best(steps), how |-> "worker"]
          ELSE [text |-> "unable", step |-> 0, how |-> "manager"]}

\* _manager_direct_response, _render_meridian_internal_answer
Alone ==
    IF plan.mode = "internal_status" THEN {[text |-> "plain", step |-> 0, how |-> "manager"]}
    ELSE {[text |-> t, step |-> 0, how |-> "manager"] : t \in {"good", "plain", "unable"}}

Answer ==
    /\ at = "answer"
    /\ answer' \in IF plan.mode # "team" THEN Alone
                   ELSE IF FastPath # {} THEN FastPath ELSE Synthesis
    /\ at' = IF plan.mode = "team" THEN "repair" ELSE "done"
    /\ UNCHANGED <<req, load, restricted, unread, plan, steps, shown, quality, barred>>

\* Mutant: an answer without the sections is sent as it is
Repaired_never == answer
\* _repair_manager_answer, the questionnaire's rendering and the competitor scan's template
Repaired ==
    LET best == Best(steps)
        repaired == IF Fits(answer.text) THEN answer
                    ELSE IF best # 0 /\ Fits(TextOf(best))
                         THEN [text |-> TextOf(best), step |-> best, how |-> "repaired"]
                    ELSE IF Fits(Salvaged) THEN [text |-> Salvaged, step |-> 0, how |-> "template"]
                    ELSE answer
    IN IF Questionnaire(req) THEN [repaired EXCEPT !.text = "good"] ELSE repaired
Repair ==
    /\ at = "repair" /\ answer' = Repaired /\ at' = "assess"
    /\ UNCHANGED <<req, load, restricted, unread, plan, steps, shown, quality, barred>>

---------------------------------------------------------------------------
\* _assess_skill_quality_outcome
Usable == (\E i \in DOMAIN steps : StepUsable(steps[i])) \/ FinalUsable(answer.text)
Failed(step) == step.by = "AEGIS" /\ step.text = "fail"
FailRecoverable(step) == step.warns # {} /\ step.warns \subseteq {"gap", "runtime", "info"}

Blocking(step) ==
    \/ Status(step) # "ok" /\ ~Usable
    \/ "blocker" \in step.warns
    \/ Failed(step) /\ ~(Usable /\ FailRecoverable(step))
Gap(step) == step.warns \cap {"gap", "runtime"} # {} \/ Failed(step)
PlaceholderOk == req.skill \in {"mail", "meeting", "questionnaire", "watch", "web", "follow",
                               "competitor", "customer"}
Warned == \E i \in DOMAIN steps : steps[i].warns \ {"info"} # {}

Assessed ==
    LET S == {steps[i] : i \in DOMAIN steps}
        down == {x \in S : Status(x) # "ok"}
        blockers == {x \in S : Blocking(x)}
    IN IF S = {} THEN "partial"
       ELSE IF blockers # {}
            THEN IF Usable /\ \A x \in blockers : "blocker" \notin x.warns THEN "partial" ELSE "failure"
       ELSE IF down # {} \/ \E x \in S : Gap(x)
            THEN IF PlaceholderOk /\ Usable /\ down = {} THEN "success"
                 ELSE IF Usable \/ Warned THEN "partial" ELSE "success"
       ELSE IF Warned THEN "partial" ELSE "success"

Assess ==
    /\ at = "assess" /\ quality' = Assessed /\ at' = "done"
    /\ UNCHANGED <<req, load, restricted, unread, plan, steps, shown, answer, barred>>

---------------------------------------------------------------------------
\* the court restricts another agent meanwhile
Bar(w) ==
    /\ at \in {"work", "answer"} /\ w \notin restricted
    /\ Cardinality(restricted) < MaxRestrictions
    /\ restricted' = restricted \cup {w}
    /\ UNCHANGED <<req, load, unread, plan, steps, shown, at, answer, quality, barred>>

TdNext == \/ Route \/ Work \/ WorkDone \/ Answer \/ Repair \/ Assess
          \/ \E w \in Roster : Bar(w)
TdSpec == TdInit /\ [][TdNext]_tdvars

---------------------------------------------------------------------------
(***************************************************************************)
(* Properties                                                              *)
(***************************************************************************)
\* A step is run only by an agent the court left free when the plan was made, or whose
\* entry could not be read then (_worker_is_restricted lets such an agent in), except that
\* a planned team is given a writer whatever the court says of QUILL.
RestrictedStaysOut ==
    \A i \in DOMAIN steps :
        steps[i].by \in barred \ unread =>
            steps[i].by = "QUILL" /\ plan.reason = "planner" /\ req.writer

\* The answer the gate's verdict is taken for is the text the gate was given, on the
\* routes whose workers the skill orders: a writer never comes after the gate.
VerifiedIsDelivered ==
    answer.how = "gated" /\ plan.reason = "skill" =>
        answer.step = shown /\ \E i \in DOMAIN steps : steps[i].by = "AEGIS" /\ steps[i].text = "pass"

\* A delivery judged a success gives the user something to use: never an apology or the
\* reason of a failure, and with a skill that has a template always its sections; nor was
\* any of its steps denied. (Web research has sections and no template: there an apology
\* can pass for a success.)
SuccessIsAnswered ==
    at = "done" /\ quality = "success" /\ req.skill # "web" =>
        /\ Salvaged # "none" => answer.text = Salvaged
        /\ (\E i \in DOMAIN steps : StepUsable(steps[i])) => answer.text \notin {"unable", "error", "fail"}
        /\ \A i \in DOMAIN steps : "blocker" \notin steps[i].warns

=============================================================================
