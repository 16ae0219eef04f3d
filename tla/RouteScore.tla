------------------------------ MODULE RouteScore ------------------------------
(***************************************************************************)
(* How the gateway chooses between an answer of the manager alone and a    *)
(* team of specialists: two scores, and the margin by which the team's     *)
(* must win, which grows with the load on the deliveries.                  *)
(*   request  lane, skill (the best match and its shape), writer, short,   *)
(*            action, top and gap (skill scores), generic (a generic       *)
(*            generated skill came first), tokens, proven                  *)
(*   load     pending deliveries, median latency (ms), failures (thousandths)  *)
(* Costs are in millionths of a dollar.                                    *)
(***************************************************************************)
EXTENDS Integers, Sequences, FiniteSets
LOCAL INSTANCE TLC
LOCAL INSTANCE FiniteSetsExt

Roster == {"ATLAS", "SENTINEL", "FORGE", "QUILL", "AEGIS", "PULSE"}
Clamp(low, n, high) == Max({low, Min({n, high})})
Points(condition, n) == IF condition THEN n ELSE 0

---------------------------------------------------------------------------
\* what the request asks for
Protocol(r) == r.skill = "protocol"
Questionnaire(r) == r.skill = "questionnaire"
Watch(r) == r.skill = "watch"
Customer(r) == r.skill = "customer"
FastLane(r) == r.skill \in {"mail", "meeting", "web", "questionnaire", "follow", "customer", "protocol"}
RequiresTeam(r) == r.skill \notin {"none", "other"}

\* _specialist_timeout_for_request
Timeout(w, r) ==
    CASE w = "ATLAS" /\ Watch(r) -> 28
      [] w = "ATLAS" /\ Questionnaire(r) -> 22
      [] w = "ATLAS" /\ r.skill = "competitor" -> 25
      [] w = "ATLAS" /\ Customer(r) -> 30
      [] w = "SENTINEL" -> 10
      [] w = "QUILL" /\ Protocol(r) -> 22
      [] w = "AEGIS" /\ Protocol(r) -> 18
      [] w = "QUILL" /\ r.skill \in {"mail", "meeting", "follow", "questionnaire", "customer"} -> 30
      [] w = "AEGIS" /\ r.skill \in {"mail", "meeting", "follow", "questionnaire", "watch",
                                     "customer"} -> 25
      [] w = "AEGIS" /\ r.skill = "competitor" -> 20
      [] OTHER -> IF w \in {"ATLAS", "QUILL", "PULSE"} THEN 45 ELSE 120

\* _direct_provider_timeout_for_request: the part of it the direct provider may take
DirectTimeout(w, r) ==
    LET t == Timeout(w, r)
    IN IF ~(w \in {"QUILL", "AEGIS"} /\ FastLane(r)) THEN Clamp(6, t, 15)
       ELSE IF Protocol(r) THEN Min({IF w = "QUILL" THEN 12 ELSE 10, Max({8, t \div 2})})
       ELSE IF r.skill \in {"mail", "meeting", "follow"} THEN Min({12, Max({8, t \div 2})})
       ELSE IF Questionnaire(r) THEN Min({13, Max({9, t \div 2})})
       ELSE Min({14, Max({10, t \div 2})})

\* what is left of it for Loom once the direct provider did not answer
LoomTimeout(w, r) ==
    LET t == Timeout(w, r)
    IN Max({8, t - Min({DirectTimeout(w, r), Max({t - 6, 0})})})

---------------------------------------------------------------------------
\* _routing_runtime_load_snapshot, of the statuses and the latencies of the last deliveries
Load(statuses, latencies) ==
    LET over == SelectSeq(statuses, LAMBDA s : s \in {"delivered", "failed"})
        failed == SelectSeq(statuses, LAMBDA s : s = "failed")
        waiting == SelectSeq(statuses, LAMBDA s : s \in {"queued", "pending"})
        sorted == SortSeq(latencies, <)
        mid == Len(sorted) \div 2
    IN [pending |-> Len(waiting),
        latency |-> IF latencies = <<>> THEN 0
                    ELSE IF Len(sorted) % 2 = 1 THEN sorted[mid + 1]
                    ELSE (sorted[mid] + sorted[mid + 1]) \div 2,
        failing |-> IF over = <<>> THEN 0 ELSE (1000 * Len(failed)) \div Len(over)]

Quiet(l) == l.pending = 0 /\ l.latency > 0 /\ l.latency <= 2500 /\ l.failing <= 100

\* one graded penalty: the larger when the value reaches high, the smaller from elevated on
Grade(value, elevated, high, small, large) ==
    IF value >= high THEN large ELSE Points(value >= elevated, small)

\* _adaptive_route_thresholds
Margin(l, short) ==
    IF short
    THEN Clamp(3, 9 + Grade(l.pending, 2, 4, 3, 5) + Grade(l.latency, 7000, 12000, 2, 4)
                    + Grade(l.failing, 200, 350, 2, 4) - Points(Quiet(l), 1), 26)
    ELSE Clamp(2, 4 + Grade(l.pending, 2, 4, 2, 4) + Grade(l.latency, 7000, 12000, 1, 3)
                    + Grade(l.failing, 200, 350, 1, 3) - Points(Quiet(l), 1), 20)

DirectGuard(l) ==
    Clamp(35, 55 - Grade(l.pending, 2, 4, 3, 6) - Grade(l.latency, 7000, 12000, 2, 4)
                 - Grade(l.failing, 200, 350, 2, 5) + Points(Quiet(l), 1), 85)

---------------------------------------------------------------------------
TeamLatency(r, workers) ==
    LET spent[n \in 0 .. Len(workers)] ==
            IF n = 0 THEN 8 ELSE spent[n - 1] + Min({Timeout(workers[n], r), 35})
    IN spent[Len(workers)]
DirectLatency(r) == IF r.short THEN 6 ELSE 9
DirectCost(r) == 600 + 20 * Max({r.tokens, 1})
TeamCost(r, workers) ==
    1200 * Max({Len(workers), 1}) + 70 * TeamLatency(r, workers) + 30 * Max({r.tokens, 1})

DirectScore(r) ==
    50 + Points(~r.action, 4) + Points(r.short /\ ~r.action, 16) + Points(r.top < 8, 12)
       + Points(r.gap <= 2, 8) + Points(r.generic, 8)
TeamScore(r, workers) ==
    LET slower == Max({0, TeamLatency(r, workers) - DirectLatency(r)})
        dearer == Max({0, TeamCost(r, workers) - DirectCost(r)})
    IN 46 + Points(RequiresTeam(r), 24) + Points(r.action, 6) - Points(r.short /\ ~r.action, 6)
          + (IF r.top >= 20 THEN 16 ELSE IF r.top >= 12 THEN 10 ELSE IF r.top >= 8 THEN 6 ELSE -4)
          + Points(r.gap >= 6, 4) - Points(r.generic, 6) + Points(r.writer, 4)
          - Min({24, slower \div 4}) - Min({16, dearer \div 1000})

Lead(r, workers) == TeamScore(r, workers) - DirectScore(r)
Abs(n) == IF n < 0 THEN -n ELSE n
\* _decision_grade_route_score
TeamWins(r, l, workers) == Lead(r, workers) >= Margin(l, r.short)
Confidence(r, workers) == Clamp(40, (4 * Abs(Lead(r, workers)) + 3 * r.top + 3 * r.gap) \div 2, 99)
SureDirect(r, l, workers) ==
    ~TeamWins(r, l, workers) /\ ~RequiresTeam(r) /\ ~r.action
        /\ Confidence(r, workers) >= DirectGuard(l)
=============================================================================
