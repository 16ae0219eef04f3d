---------------------------- MODULE SessionScoring ----------------------------
(***************************************************************************)
(* What a finished delivery earns its agents.  The threads of the gateway  *)
(* (web requests, the Telegram poller) each score their own delivery: they *)
(* load the score state and the ledger whole, journal one entry for every  *)
(* agent, save the ledger, file violations with the court, and save the    *)
(* score state last; there is no lock.  The score state is what keeps a    *)
(* delivery, or another one that says the same, from being scored again.   *)
(* It remembers only the last of them, and a reader that meets a write     *)
(* under way, or what a stop left of one, takes it for empty.              *)
(* A delivery: print (its fingerprint), session, eligible, research (a     *)
(* research skill ran), quality, source, lenient (its warnings are gaps    *)
(* only), contributors, recalled (what memory and evidence it was given),  *)
(* evidence (the entries it wrote: agent, kind, status).  A contributor:   *)
(* agent, kind, status (ok, failed, other), usable, fit, shape, final,     *)
(* best, pass, fail, drift, blocked, broke, cites.  Of what was recalled:  *)
(* agent, kind, fit, same (a skill of this delivery), worth, status.       *)
(***************************************************************************)
EXTENDS Integers, Sequences, FiniteSets
LOCAL INSTANCE FiniteSetsExt

CONSTANTS
    Scorers,
    Deliveries,     \* in the order in which they are made
    DeliveryOf,     \* the content of each
    Agents,         \* of the ledger
    Manager,
    Patience,       \* bad outcomes before a violation weighs more: three in the code
    ScoredLimit, ScoredKept,    \* past the limit the score state is cut: 2000 and 1500 in the code
    MaxScoreCrashes

ASSUME ScoringAssumption == ScoredLimit \in Nat /\ ScoredKept \in 1 .. ScoredLimit

NoState == [events |-> <<>>, prints |-> <<>>, outcomes |-> [a \in Agents |-> {}], court |-> {}]
Resting == [pc |-> "idle", d |-> "none", seen |-> <<>>, state |-> NoState, book |-> <<>>,
            todo |-> {}, charges |-> {}]
Listed(list) == {list[i] : i \in DOMAIN list}
Prints(st) == Listed(st.prints)

VARIABLES
    delivered,      \* the deliveries made, in order
    scorer, state,
    ledger,         \* of each agent: reputation, authority, sanctions
    journal,        \* agent, print, before, after
    charged,        \* violations filed: print, agent, severity (history: their number)
    muddled,        \* agents whose ledger entry two scorers held at once, or a crash tore (history)
    again,          \* prints that two scorers had in hand at once, that a stop broke off, or
                    \* that the score state forgot (history)
    scoreCrashes

ssvars == <<delivered, scorer, state, ledger, journal, charged, muddled, again, scoreCrashes>>

SsInit ==
    /\ delivered = <<>> /\ scorer = [s \in Scorers |-> Resting] /\ state = NoState
    /\ ledger = [a \in Agents |-> [rep |-> 50, auth |-> 50, flags |-> {}]]
    /\ journal = <<>> /\ charged = <<>> /\ muddled = {} /\ again = {} /\ scoreCrashes = 0

---------------------------------------------------------------------------
(***************************************************************************)
(* The points                                                              *)
(***************************************************************************)
\* _contributor_support_level
Support(c) ==
    IF c.final \/ (c.best /\ c.fit >= 36) THEN "primary"
    ELSE IF c.shape \/ c.fit >= 28 THEN "supporting" ELSE IF c.usable THEN "weak" ELSE "none"
\* _contributors_show_writer_issue
WriterIssue(dv) ==
    \E c \in dv.contributors : c.kind = "write" /\ (~c.usable \/ c.drift \/ c.fit < 18 \/ c.blocked)

By(q, success, partial, failure) ==
    IF q = "success" THEN success ELSE IF q = "partial" THEN partial ELSE failure

\* USER_SESSION_SCORE_DELTAS: the manager's share
Base(dv) ==
    CASE dv.source = "manager_response" -> By(dv.quality, <<6, 5>>, <<3, 2>>, <<-4, -5>>)
      [] dv.source = "worker_artifact" -> By(dv.quality, <<3, 2>>, <<2, 1>>, <<-4, -5>>)
      [] dv.source = "salvage_template" -> By(dv.quality, <<5, 4>>, <<2, 1>>, <<-4, -5>>)

\* a share is what one add_delta gives, or nothing when there is no call
None == {}
Grant(rep, auth) == {<<rep, auth>>}
Given(share) == share \ {<<0, 0>>}      \* the calls that "if rep_delta or auth_delta" guards

ResearchShare(c, q) ==
    LET given == IF Support(c) = "primary" THEN By(q, <<4, 3>>, <<2, 2>>, <<0, 0>>)
                 ELSE IF Support(c) = "supporting" THEN By(q, <<3, 1>>, <<1, 1>>, <<0, 0>>)
                 ELSE IF c.usable THEN <<1, IF c.fit >= 20 THEN 1 ELSE 0>> ELSE <<0, 0>>
        held == IF c.blocked THEN 1 ELSE 0
    IN Given(Grant(given[1] + Min({c.cites, 2}) - held, given[2] - held))

WriterShare(c, q, source) ==
    LET poor == c.fit < 18 \/ c.blocked
    IN CASE source = "worker_artifact" /\ c.usable ->
               IF Support(c) = "primary" THEN By(q, Grant(7, 6), Grant(4, 3), Grant(4, 3))
               ELSE IF Support(c) = "supporting" THEN By(q, Grant(4, 3), Grant(2, 1), Grant(2, 1))
               ELSE IF poor THEN By(q, Grant(0, 0), Grant(0, -1), Grant(0, -1)) ELSE None
         [] source = "manager_response" ->
               IF Support(c) = "primary" THEN By(q, Grant(5, 4), Grant(2, 1), Grant(2, 1))
               ELSE IF c.drift \/ poor THEN By(q, Grant(1, 0), Grant(0, -1), Grant(0, -1))
               ELSE IF c.usable \/ c.shape THEN By(q, Grant(3, 2), Grant(1, 1), Grant(1, 1)) ELSE None
         [] source = "salvage_template" ->
               IF c.drift \/ poor THEN By(q, Grant(0, 0), Grant(0, 0), Grant(0, -1))
               ELSE IF c.usable \/ Support(c) = "supporting" THEN Grant(1, 0) ELSE None
         [] OTHER -> None

GateShare(c, dv) ==
    IF c.pass /\ dv.quality # "failure" THEN By(dv.quality, Grant(2, 2), Grant(1, 1), None)
    ELSE IF c.fail /\ WriterIssue(dv) THEN By(dv.quality, Grant(1, 0), Grant(1, 1), Grant(2, 1))
    ELSE IF c.fail /\ dv.quality = "failure" THEN Grant(-1, -2) ELSE None

ExecuteShare(c, q) ==
    IF c.status = "ok" /\ q = "success" THEN Grant(2, 2)
    ELSE IF c.status = "failed" THEN Grant(IF c.broke THEN -1 ELSE 0, -1) ELSE None

Share(c, dv) ==
    CASE /\ c.kind = "research" /\ dv.research
         /\ c.status = "ok" /\ dv.quality # "failure"       -> ResearchShare(c, dv.quality)
      [] c.kind = "write" /\ c.status = "ok"                -> WriterShare(c, dv.quality, dv.source)
      [] c.kind = "qa_gate"                                 -> GateShare(c, dv)
      [] c.kind = "execute"                                 -> ExecuteShare(c, dv.quality)
      [] c.kind = "compress" /\ c.status = "ok"             -> By(dv.quality, Grant(1, 1), None, None)
      [] c.kind = "verify" /\ c.pass                        -> By(dv.quality, Grant(1, 1), None, None)
      [] OTHER                                              -> None

\* what was recalled for the delivery: a remembered output that may have carried it ...
OutputTier(x) ==
    IF x.same /\ x.fit >= 64 /\ x.status = "success" THEN "primary"
    ELSE IF (x.same /\ x.fit >= 34) \/ (x.fit >= 48 /\ x.worth >= 3) THEN "supporting" ELSE "weak"
OutputShare(x, dv) ==
    LET here == \E c \in dv.contributors : c.agent = x.agent
        dear == IF x.worth >= 4 THEN 1 ELSE 0
        kin == IF x.same THEN 2 ELSE 1
        sure == IF x.status = "success" /\ x.fit >= 40 THEN 1 ELSE 0
        loss == IF x.worth < 0 /\ ~here THEN -2 ELSE -1
    IN CASE dv.quality = "success" /\ OutputTier(x) = "primary" ->
               Grant(4 + dear, IF here THEN 2 ELSE 3)
         [] dv.quality = "success" /\ OutputTier(x) = "supporting" ->
               Grant(IF here THEN Max({1, kin + dear - 1}) ELSE kin + dear, 1 + sure)
         [] dv.quality = "success" /\ OutputTier(x) = "weak" -> Given(Grant(IF here THEN 0 ELSE 1, 0))
         [] dv.quality = "partial" -> IF x.worth < 0 THEN Grant(-1, -1) ELSE None
         [] dv.quality = "failure" -> Grant(loss, loss)
\* ... or evidence on file
EvidenceShare(x, q) ==
    CASE q = "success" /\ x.status = "approved" /\ x.fit >= 18 ->
            IF x.same /\ x.fit >= 60 THEN Grant(4, 3)
            ELSE IF x.same \/ x.fit >= 36 THEN Grant(2, 1) ELSE Grant(1, 0)
      [] q = "partial" /\ x.status \in {"draft", "stale"} /\ x.fit >= 24 -> Grant(0, -1)
      [] OTHER -> None
RecallShare(x, dv) ==
    CASE x.kind = "output" /\ x.fit >= 18 -> OutputShare(x, dv)
      [] x.kind = "evidence"              -> EvidenceShare(x, dv.quality)
      [] OTHER                            -> None

\* the last evidence update of the session is rewarded, whichever delivery wrote it
LastEvidence(seen, dv) ==
    LET wrote == SelectSeq(seen, LAMBDA e : /\ DeliveryOf[e].session = dv.session
                                            /\ DeliveryOf[e].evidence # {})
    IN IF wrote = <<>> THEN {} ELSE DeliveryOf[wrote[Len(wrote)]].evidence
WrittenShare(e) ==
    CASE e.status = "approved" -> IF e.kind = "brief" THEN Grant(3, 2) ELSE Grant(4, 3)
      [] e.status = "draft" -> Grant(1, 0)
      [] OTHER -> None

For(S, a) == {x \in S : x.agent = a}
Plus(share, sum) ==
    IF share = None THEN sum ELSE LET p == CHOOSE p \in share : TRUE IN <<p[1] + sum[1], p[2] + sum[2]>>
Earned(a, dv, seen) ==
    LET base == IF a = Manager THEN Base(dv) ELSE <<0, 0>>
        shares == FoldSet(LAMBDA c, sum : Plus(Share(c, dv), sum), base, For(dv.contributors, a))
        recalled == FoldSet(LAMBDA x, sum : Plus(RecallShare(x, dv), sum), shares, For(dv.recalled, a))
    IN FoldSet(LAMBDA e, sum : Plus(WrittenShare(e), sum), recalled, For(LastEvidence(seen, dv), a))
\* whoever an add_delta call was made for is in the journal, were it for nothing
Paid(dv, seen) ==
    {a \in Agents :
        \/ a = Manager
        \/ \E c \in For(dv.contributors, a) : Share(c, dv) # None
        \/ \E x \in For(dv.recalled, a) : RecallShare(x, dv) # None
        \/ \E e \in For(LastEvidence(seen, dv), a) : WrittenShare(e) # None}

Halved(n) == Max({1, n \div 2})
Within(n) == Max({0, Min({100, n})})
\* _apply_user_session_delta
Applied(entry, points) ==
    [entry EXCEPT !.rep = Within(@ + (IF "probation" \in entry.flags /\ points[1] > 0
                                      THEN Halved(points[1]) ELSE points[1])),
                  !.auth = Within(@ + (IF "zero_authority" \in entry.flags /\ points[2] > 0
                                       THEN 0 ELSE points[2]))]

---------------------------------------------------------------------------
\* the team route finishes a delivery and the thread starts to score it
Finish(s) ==
    /\ scorer[s].pc = "idle" /\ Len(delivered) < Len(Deliveries)
    /\ LET d == Deliveries[Len(delivered) + 1]
       IN /\ delivered' = Append(delivered, d)
          /\ scorer' = [scorer EXCEPT ![s] = [Resting EXCEPT !.pc = "begin", !.d = d]]
    /\ UNCHANGED <<state, ledger, journal, charged, muddled, again, scoreCrashes>>

Of(s) == DeliveryOf[scorer[s].d]
Busy(s) == scorer[s].pc \notin {"idle", "begin"}

\* the score state is being written, and so is empty for who reads it
Closing(t) == scorer[t].pc = "repeat" \/ (scorer[t].pc = "court" /\ scorer[t].charges = {})
StateRead(s) == {state} \cup (IF \E t \in Scorers \ {s} : Closing(t) THEN {NoState} ELSE {})

\* history: another scorer has the print in hand, or what was read does not know it
TakenUp(s, st) ==
    again' = again \cup (IF \/ \E t \in Scorers \ {s} : Busy(t) /\ Of(t).print = Of(s).print
                            \/ Of(s).print \in Prints(state) \ Prints(st)
                         THEN {Of(s).print} ELSE {})
Forgotten == Prints(state) \ Prints(state')

\* Mutant: only the event is looked up, not its fingerprint
Begin_events(s) ==
    /\ scorer[s].pc = "begin"
    /\ \E st \in StateRead(s) :
          /\ TakenUp(s, st)
          /\ scorer' = [scorer EXCEPT ![s] =
                IF scorer[s].d \in Listed(st.events) \/ ~Of(s).eligible THEN Resting
                ELSE [@ EXCEPT !.pc = "book", !.seen = delivered, !.state = st]]
    /\ UNCHANGED <<delivered, state, ledger, journal, charged, muddled, scoreCrashes>>
\* the score state and the session are read once, here
Begin(s) ==
    /\ scorer[s].pc = "begin"
    /\ \E st \in StateRead(s) :
          /\ TakenUp(s, st)
          /\ scorer' = [scorer EXCEPT ![s] =
                IF scorer[s].d \in Listed(st.events) \/ ~Of(s).eligible THEN Resting
                ELSE [@ EXCEPT !.pc = IF Of(s).print \in Prints(st) THEN "repeat" ELSE "book",
                               !.seen = delivered, !.state = st]]
    /\ UNCHANGED <<delivered, state, ledger, journal, charged, muddled, scoreCrashes>>

\* the print is known: the event is noted, and nothing is paid
Repeat(s) ==
    /\ scorer[s].pc = "repeat"
    /\ state' = [scorer[s].state EXCEPT !.events = Append(@, scorer[s].d)]
    /\ again' = again \cup Forgotten
    /\ scorer' = [scorer EXCEPT ![s] = Resting]
    /\ UNCHANGED <<delivered, ledger, journal, charged, muddled, scoreCrashes>>

\* the whole ledger is read, and every delta worked out
Holders == {t \in Scorers : scorer[t].pc \in {"journal", "ledger"}}
Book(s) ==
    /\ scorer[s].pc = "book"
    /\ scorer' = [scorer EXCEPT ![s].pc = "journal", ![s].book = ledger, 
                                ![s].todo = Paid(Of(s), scorer[s].seen)]
    /\ muddled' = IF Holders = {} THEN muddled ELSE Agents
    /\ UNCHANGED <<delivered, state, ledger, journal, charged, again, scoreCrashes>>

\* one entry of the journal for each agent, before the ledger
Journal(s, a) ==
    /\ scorer[s].pc = "journal" /\ a \in scorer[s].todo
    /\ a = Manager \/ Manager \notin scorer[s].todo
    /\ LET entry == scorer[s].book[a]
           new == Applied(entry, Earned(a, Of(s), scorer[s].seen))
       IN /\ journal' = Append(journal, [agent |-> a, print |-> Of(s).print, before |-> entry.rep,
                                         after |-> new.rep, by |-> scorer[s].d])
          /\ scorer' = [scorer EXCEPT ![s].book[a] = new, ![s].todo = @ \ {a},
                                      ![s].pc = IF scorer[s].todo = {a} THEN "ledger" ELSE @]
    /\ UNCHANGED <<delivered, state, ledger, charged, muddled, again, scoreCrashes>>

---------------------------------------------------------------------------
(***************************************************************************)
(* The court                                                               *)
(***************************************************************************)
\* court_get_restrictions: any sanction restricts
Restricted(book, a) == book[a].flags # {}
\* _severity_with_existing_restrictions
Weight(book, a, n) == IF Restricted(book, a) THEN Min({n, 2}) ELSE Min({n, 6})
Bad(outcomes, a, d) ==
    Cardinality({o \in outcomes[a] : o.relevant /\ o.print # DeliveryOf[d].print}) + 1
\* who answers for a bad delivery besides the manager, and how much it weighs
Faulty(c, dv) ==
    \/ c.kind = "write" /\ (c.drift \/ (dv.quality = "failure" /\ ~c.usable)
                            \/ (c.fit < 18 /\ (c.final \/ c.usable)) \/ c.blocked)
    \/ c.kind = "execute" /\ c.status = "failed" /\ dv.quality = "failure"
Raised(outcomes, a, d) == IF Bad(outcomes, a, d) >= Patience THEN 1 ELSE 0
Charge(book, outcomes, c, d) ==
    LET dv == DeliveryOf[d]
        plain == IF c.kind = "execute" \/ dv.quality = "failure" THEN 4 ELSE 3
        poor == IF c.kind = "write" /\ (c.fit < 12 \/ c.blocked) THEN 1 ELSE 0
    IN [agent |-> c.agent,
        severity |-> Weight(book, c.agent, Min({5, plain + Raised(outcomes, c.agent, d) + poor}))]
ManagerCharge(book, outcomes, d) ==
    LET dv == DeliveryOf[d]
        plain == IF dv.source = "salvage_template" THEN 4 ELSE IF dv.quality = "failure" THEN 3 ELSE 2
    IN [agent |-> Manager,
        severity |-> Weight(book, Manager, Min({5, plain + Raised(outcomes, Manager, d)}))]

\* _build_user_session_court_candidates
Accused(book, outcomes, d) ==
    LET dv == DeliveryOf[d]
        charges == {Charge(book, outcomes, c, d) : c \in {c \in dv.contributors : Faulty(c, dv)}}
    IN IF dv.quality = "success" \/ dv.lenient THEN {}
       ELSE {ManagerCharge(book, outcomes, d)} \cup {x \in charges : x.severity >= 3}
\* _remember_user_session_agent_outcome, for the manager and every contributor
Remember(outcomes, d) ==
    LET dv == DeliveryOf[d]
        agents == {Manager} \cup {c.agent : c \in dv.contributors}
        blamed == {Manager} \cup {c.agent : c \in {c \in dv.contributors : Faulty(c, dv)}}
    IN IF dv.quality = "success" \/ dv.lenient THEN outcomes
       ELSE [a \in Agents |-> IF a \notin agents THEN outcomes[a]
                              ELSE {o \in outcomes[a] : o.print # dv.print}
                                   \cup {[print |-> dv.print, relevant |-> a \in blamed]}]

\* Mutant: a delivery nobody is accused of returns before the ledger is saved
SaveLedger_skip(s) ==
    /\ scorer[s].pc = "ledger"
    /\ ledger' = IF Accused(scorer[s].book, scorer[s].state.outcomes, scorer[s].d) = {} THEN ledger
                 ELSE scorer[s].book
    /\ scorer' = [scorer EXCEPT ![s].pc = "court",
                                ![s].charges = Accused(scorer[s].book, scorer[s].state.outcomes, scorer[s].d),
                                ![s].state.outcomes = Remember(@, scorer[s].d)]
    /\ UNCHANGED <<delivered, state, journal, charged, muddled, again, scoreCrashes>>
SaveLedger(s) ==
    /\ scorer[s].pc = "ledger"
    /\ ledger' = scorer[s].book
    /\ scorer' = [scorer EXCEPT ![s].pc = "court",
                                ![s].charges = Accused(scorer[s].book, scorer[s].state.outcomes, scorer[s].d),
                                ![s].state.outcomes = Remember(@, scorer[s].d)]
    /\ UNCHANGED <<delivered, state, journal, charged, muddled, again, scoreCrashes>>

Key(s, x) == <<Of(s).print, x.agent>>
\* what court.py makes of a severity; below three nothing, and the ledger is not written
Sanction(severity) ==
    CASE severity = 3 -> {"probation"} [] severity = 4 -> {"lead_ban"}
      [] severity = 5 -> {"zero_authority"} [] severity = 6 -> {"remediation_only"} [] OTHER -> {}
\* the court records the violation and sanctions the agent; it can also fail
File(s, x) ==
    /\ scorer[s].pc = "court" /\ x \in scorer[s].charges
    /\ \/ /\ Key(s, x) \in scorer[s].state.court
          /\ scorer' = [scorer EXCEPT ![s].charges = @ \ {x}] /\ UNCHANGED <<charged, ledger, muddled>>
       \/ /\ Key(s, x) \notin scorer[s].state.court
          /\ \/ /\ charged' = Append(charged, [key |-> Key(s, x), severity |-> x.severity])
                /\ ledger' = [ledger EXCEPT ![x.agent].flags = @ \cup Sanction(x.severity)]
                /\ muddled' = IF Holders = {} \/ Sanction(x.severity) = {} THEN muddled ELSE Agents
                /\ scorer' = [scorer EXCEPT ![s].charges = @ \ {x},
                                            ![s].state.court = @ \cup {Key(s, x)}]
             \/ /\ scorer' = [scorer EXCEPT ![s].charges = @ \ {x}]
                /\ UNCHANGED <<charged, ledger, muddled>>
    /\ UNCHANGED <<delivered, state, journal, again, scoreCrashes>>

\* past the limit only the latest are kept
Trimmed(list) ==
    IF Len(list) > ScoredLimit THEN SubSeq(list, Len(list) - ScoredKept + 1, Len(list)) ELSE list
\* the score state is written whole, last
Close(s) ==
    /\ scorer[s].pc = "court" /\ scorer[s].charges = {}
    /\ state' = [scorer[s].state EXCEPT !.events = Trimmed(Append(@, scorer[s].d)),
                                        !.prints = Trimmed(Append(@, Of(s).print))]
    /\ again' = again \cup Forgotten
    /\ scorer' = [scorer EXCEPT ![s] = Resting]
    /\ UNCHANGED <<delivered, ledger, journal, charged, muddled, scoreCrashes>>

\* the gateway stops; what its threads held is gone, and so is a score state half written
ScoreCrash ==
    /\ scoreCrashes < MaxScoreCrashes /\ \E s \in Scorers : Busy(s)
    /\ scoreCrashes' = scoreCrashes + 1
    /\ state' \in {state} \cup (IF \E s \in Scorers : Closing(s) THEN {NoState} ELSE {})
    /\ again' = again \cup {Of(s).print : s \in {s \in Scorers : Busy(s)}} \cup Forgotten
    /\ muddled' = IF Holders = {} THEN muddled ELSE Agents
    /\ scorer' = [s \in Scorers |-> Resting]
    /\ UNCHANGED <<delivered, ledger, journal, charged>>

SsNext ==
    \/ \E s \in Scorers :
        \/ Finish(s)
        \/ \E a \in Agents : Journal(s, a)
        \/ \E x \in scorer[s].charges : File(s, x)
        \/ Begin(s) \/ Repeat(s) \/ Book(s) \/ SaveLedger(s) \/ Close(s)
    \/ ScoreCrash

SsSpec == SsInit /\ [][SsNext]_ssvars

---------------------------------------------------------------------------
(***************************************************************************)
(* Properties                                                              *)
(***************************************************************************)
\* Deliveries that say the same thing are paid for once while the score state remembers
\* them: an agent has two journal entries for one fingerprint only if two scorers had it
\* in hand together, or a stop broke one off, or the score state forgot it (a scorer that
\* knew less wrote it whole, it was past its limit and was cut, a stop or a write under
\* way left it unreadable).
PaidOnce ==
    \A i, j \in DOMAIN journal :
        i # j /\ journal[i].agent = journal[j].agent /\ journal[i].print = journal[j].print
            => journal[i].print \in again

\* The journal explains the ledger: each entry starts from the reputation the entry of
\* the same agent before it ended with, and the last one is what the ledger says, unless
\* two scorers held the ledger at once or one died between journal and ledger.
JournalExplains ==
    \A a \in Agents \ muddled : \A i \in DOMAIN journal : journal[i].agent = a =>
        LET later == {j \in DOMAIN journal : j > i /\ journal[j].agent = a}
        IN /\ \A j \in later : (\A k \in later : j <= k) => journal[j].before = journal[i].after
           /\ later = {} /\ Holders = {} => ledger[a].rep = journal[i].after

=============================================================================
