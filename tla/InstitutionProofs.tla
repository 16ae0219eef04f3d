---------------------------- MODULE InstitutionProofs ----------------------------
(***************************************************************************)
(* Theorems about the parts of an institution's workspace, for any number  *)
(* of threads, clerks and processes: the authority queue, whatever the     *)
(* legacy file holds; the settlement journal and the alerts, which hold an *)
(* append-only log against a state that is written apart from it; and the  *)
(* court, whose records and the stores they decide about are written apart.*)
(***************************************************************************)
EXTENDS Authority, Court, SettlementJournal, Alerting, FiniteSetTheorems, SequenceTheorems, TLAPS

(***************************************************************************)
(* The authority queue.                                                    *)
(***************************************************************************)
StepNames == {"migrate", "copy", "boot", "read", "write", "answer"}
Asks == {"check", "gate"}
Thread == [op : Ops \cup {None}, id : Approvals \cup Delegations \cup {None},
           agent : Agents \cup {None}, arg : Int \cup {"approved", "denied", None},
           todo : Seq(StepNames), copy : Queue]

\* What is left to do for a question, a change, and a bootstrap.
AskPlan(s) ==
    /\ Len(s) \in 1 .. 3
    /\ Len(s) = 1 => s[1] = "answer"
    /\ Len(s) = 2 => s[1] = "read" /\ s[2] = "answer"
    /\ Len(s) = 3 => s[1] \in {"migrate", "copy"} /\ s[2] = "read" /\ s[3] = "answer"
SavePlan(s) ==
    /\ Len(s) \in 1 .. 4
    /\ Len(s) = 1 => s[1] = "write"
    /\ Len(s) = 2 => s[1] \in {"migrate", "copy"} /\ s[2] = "write"
    /\ Len(s) = 3 => s[1] = "read" /\ s[2] = "migrate" /\ s[3] = "write"
    /\ Len(s) = 4 => s[1] \in {"migrate", "copy"} /\ s[2] = "read" /\ s[3] = "migrate" /\ s[4] = "write"
BootPlan(s) == Len(s) = 1 /\ s[1] \in {"boot", "copy", "write"}
Plan(op, s) ==
    CASE op = "bootstrap" -> BootPlan(s)
      [] op \in Asks      -> AskPlan(s)
      [] OTHER            -> SavePlan(s)

\* What the fields of a request are, by its operation.
Fields(r) ==
    /\ r.op \in {"request", "decide"} => r.id \in Approvals
    /\ r.op \in {"delegate", "revoke"} => r.id \in Delegations
    /\ r.op = "decide" => r.arg \in {"approved", "denied"}
    /\ r.op = "delegate" => r.arg \in Int /\ r.agent \in Agents
    /\ r.op = "check" => r.agent \in Agents

TypeInv ==
    /\ legacy \in Legacies
    /\ queue \in Queue
    /\ now \in Nat
    /\ th \in [Threads -> Thread]
    /\ \A t \in Threads : Fields(th[t]) /\ th[t].copy.there
    /\ \A t \in Threads : Busy(t) => Plan(th[t].op, th[t].todo)
    /\ \A t \in Threads : At(t, "copy") => legacy.there
    /\ said \in [Threads -> {None, "halted", "clear", "delegated", "rights", "denied"}]
    /\ DOMAIN seen = Threads
    /\ alone \in BOOLEAN

\* A question that is served has witnessed what the queue says now, and what its
\* own copy says; an answer follows from what was witnessed.
Told(t) == \* the copy is loaded
    /\ ~th[t].copy.kill => "off" \in seen[t]
    /\ \A a \in Agents : Lent(th[t].copy, a) => a \in seen[t]
Asking(t) ==
    /\ said[t] = None
    /\ Facts \subseteq seen[t]
    /\ Len(th[t].todo) = 1 => Told(t)
AnswerInv ==
    /\ \A t \in Threads : Busy(t) /\ th[t].op \in Asks => Asking(t)
    /\ \A t \in Threads : said[t] = None => whom[t] = th[t].agent
    /\ AnsweredTruly

\* Identifiers once given out stay used; what a change refuses it has refused
\* once its copy is loaded; a file that is not there holds nothing.
Changes(r) == r.op \notin Asks \cup {"bootstrap"}
UsedBy(r, ids, old) ==
    /\ \A a \in Approvals : r.copy.approvals[a] # None => a \in ids
    /\ r.op = "request" => r.id \in ids /\ old.approvals[r.id] = None
    /\ r.todo # <<>> /\ Changes(r) /\ Len(r.todo) <= 2 => Accepts(r)
UsedInv ==
    /\ \A a \in Approvals : legacy.approvals[a] # None \/ queue.approvals[a] # None => a \in used
    /\ \A t \in Threads : UsedBy(th[t], used, legacy)
    /\ ~queue.there => queue = Absent

\* A request that is served alone: the legacy file is copied only over a queue
\* without state; once the queue is loaded the copy is the queue, and no second
\* migration comes between the load and the save.
Serving(t) ==
    /\ At(t, "copy") => ~HasState(queue)
    /\ Changes(th[t]) =>
          /\ Len(th[t].todo) <= 3 => ~NeedsLegacy
          /\ Len(th[t].todo) <= 2 =>
                ~At(t, "copy") /\ th[t].copy = [queue EXCEPT !.there = TRUE]
          /\ th[t].op = "request" => queue.approvals[th[t].id] = None
    /\ th[t].op = "bootstrap" =>
          th[t].copy = Empty /\ (At(t, "write") => ~queue.there)
AloneInv ==
    alone => /\ \A t, u \in Threads : Busy(t) /\ Busy(u) => t = u
             /\ \A t \in Threads : Busy(t) => Serving(t)

(***************************************************************************)
(* Plans.                                                                  *)
(***************************************************************************)
LEMMA TailOf ==
    ASSUME NEW s \in Seq(StepNames), s # <<>>
    PROVE  /\ Tail(s) \in Seq(StepNames) /\ Len(s) \in Nat /\ Len(s) >= 1
           /\ Len(Tail(s)) = Len(s) - 1 /\ Head(s) = s[1]
           /\ \A i \in 1 .. Len(s) - 1 : Tail(s)[i] = s[i + 1]
           /\ Tail(s) = <<>> <=> Len(s) = 1
<1>1. /\ Tail(s) \in Seq(StepNames) /\ Len(s) \in Nat /\ Len(s) >= 1
      /\ Len(Tail(s)) = Len(s) - 1 /\ Head(s) = s[1]
      /\ \A i \in 1 .. Len(s) - 1 : Tail(s)[i] = s[i + 1]
  OBVIOUS
<1>2. Tail(s) = <<>> <=> Len(Tail(s)) = 0
  BY <1>1, EmptySeq
<1> QED BY <1>1, <1>2

LEMMA CopyBefore ==
    ASSUME NEW s \in Seq(StepNames)
    PROVE  /\ <<"copy">> \o s \in Seq(StepNames) /\ Len(<<"copy">> \o s) = Len(s) + 1
           /\ (<<"copy">> \o s)[1] = "copy" /\ <<"copy">> \o s # <<>>
           /\ \A i \in 1 .. Len(s) : (<<"copy">> \o s)[i + 1] = s[i]
<1> DEFINE c == <<"copy">>
<1>1. c \in Seq(StepNames) /\ Len(c) = 1 /\ c[1] = "copy"
  BY DEF StepNames
<1> HIDE DEF c
<1>2. /\ c \o s \in Seq(StepNames) /\ Len(c \o s) = Len(c) + Len(s)
      /\ \A i \in 1 .. Len(c) + Len(s) : (c \o s)[i] = IF i <= Len(c) THEN c[i] ELSE s[i - Len(c)]
  BY <1>1, ConcatProperties
<1>3. Len(s) \in Nat
  OBVIOUS
<1>4. Len(c \o s) = Len(s) + 1 /\ (c \o s)[1] = "copy"
  BY <1>1, <1>2, <1>3
<1>5. c \o s # <<>>
  BY <1>2, <1>3, <1>4, EmptySeq
<1>6. ASSUME NEW i \in 1 .. Len(s) PROVE (c \o s)[i + 1] = s[i]
  <2>1. i + 1 \in 1 .. 1 + Len(s) /\ ~(i + 1 <= 1) /\ (i + 1) - 1 = i
    BY <1>3
  <2> QED BY <1>1, <1>2, <2>1
<1> QED BY <1>2, <1>4, <1>5, <1>6 DEF c

\* A step done leaves a plan or nothing; a migration that copies leaves one too.
LEMMA PlanTail ==
    ASSUME NEW op, NEW s \in Seq(StepNames), s # <<>>, Plan(op, s), Tail(s) # <<>>
    PROVE  Plan(op, Tail(s))
<1> DEFINE r == Tail(s)
<1>1. /\ Len(s) \in Nat /\ Len(s) >= 2 /\ Len(r) = Len(s) - 1 /\ Len(r) \in Nat
      /\ \A i \in 1 .. Len(s) - 1 : r[i] = s[i + 1]
  BY TailOf
<1> HIDE DEF r
<1>a. /\ Len(s) >= 2 => r[1] = s[2]
      /\ Len(s) >= 3 => r[2] = s[3]
      /\ Len(s) >= 4 => r[3] = s[4]
  <2>1. /\ Len(s) >= 2 => 1 \in 1 .. Len(s) - 1
        /\ Len(s) >= 3 => 2 \in 1 .. Len(s) - 1
        /\ Len(s) >= 4 => 3 \in 1 .. Len(s) - 1
    BY <1>1
  <2>2. /\ Len(s) >= 2 => r[1] = s[1 + 1]
        /\ Len(s) >= 3 => r[2] = s[2 + 1]
        /\ Len(s) >= 4 => r[3] = s[3 + 1]
    BY <1>1, <2>1
  <2> QED BY <2>2
<1>2. CASE op = "bootstrap"
  BY <1>1, <1>2 DEF Plan, BootPlan, Asks
<1>3. CASE op \in Asks
  <2>1. AskPlan(s)
    BY <1>3 DEF Plan, Asks
  <2>2. AskPlan(r)
    BY <1>1, <1>a, <2>1 DEF AskPlan
  <2> QED BY <1>3, <2>2 DEF Plan, Asks, r
<1>4. CASE op \notin Asks /\ op # "bootstrap"
  <2>1. SavePlan(s)
    BY <1>4 DEF Plan
  <2>2. SavePlan(r)
    BY <1>1, <1>a, <2>1 DEF SavePlan
  <2> QED BY <1>4, <2>2 DEF Plan, r
<1> QED BY <1>2, <1>3, <1>4

LEMMA PlanMigrate ==
    ASSUME NEW op, NEW s \in Seq(StepNames), s # <<>>, Plan(op, s), s[1] = "migrate"
    PROVE  /\ op # "bootstrap" /\ Tail(s) # <<>> /\ Plan(op, <<"copy">> \o Tail(s))
           /\ Tail(s)[1] # "copy"
           /\ Len(<<"copy">> \o Tail(s)) = Len(s)
<1> DEFINE r == Tail(s)  m == <<"copy">> \o r
<1>1. /\ r \in Seq(StepNames) /\ Len(s) \in Nat /\ Len(s) >= 1 /\ Len(r) = Len(s) - 1
      /\ \A i \in 1 .. Len(s) - 1 : r[i] = s[i + 1]
      /\ r = <<>> <=> Len(s) = 1
  BY TailOf
<1> HIDE DEF r
<1>2. Len(m) = Len(s) /\ m[1] = "copy" /\ \A i \in 1 .. Len(s) - 1 : m[i + 1] = s[i + 1]
  BY <1>1, CopyBefore
<1> HIDE DEF m
<1>3. CASE op = "bootstrap"
  BY <1>3 DEF Plan, BootPlan, Asks
<1>4. CASE op \in Asks
  <2>1. AskPlan(s) /\ Len(s) = 3
    BY <1>1, <1>4 DEF Plan, AskPlan, Asks
  <2>2. 1 \in 1 .. Len(s) - 1 /\ 2 \in 1 .. Len(s) - 1
    BY <2>1
  <2>3. r[1] = s[2] /\ m[1 + 1] = s[1 + 1] /\ m[2 + 1] = s[2 + 1]
    BY <1>1, <1>2, <2>2
  <2>4. AskPlan(m) /\ r[1] = "read"
    BY <1>2, <2>1, <2>3 DEF AskPlan
  <2> QED BY <1>1, <1>2, <1>4, <2>1, <2>4 DEF Plan, Asks, r, m
<1>5. CASE op \notin Asks /\ op # "bootstrap"
  <2>1. SavePlan(s) /\ Len(s) \in {2, 4}
    BY <1>1, <1>5 DEF Plan, SavePlan
  <2>2. CASE Len(s) = 2
    <3>1. 1 \in 1 .. Len(s) - 1
      BY <2>2
    <3>2. r[1] = s[1 + 1] /\ m[1 + 1] = s[1 + 1]
      BY <1>1, <1>2, <3>1
    <3>3. SavePlan(m) /\ r[1] = "write"
      BY <1>2, <2>1, <2>2, <3>2 DEF SavePlan
    <3> QED BY <1>1, <1>2, <1>5, <2>2, <3>3 DEF Plan, r, m
  <2>3. CASE Len(s) = 4
    <3>1. 1 \in 1 .. Len(s) - 1 /\ 2 \in 1 .. Len(s) - 1 /\ 3 \in 1 .. Len(s) - 1
      BY <2>3
    <3>2. r[1] = s[1 + 1] /\ m[1 + 1] = s[1 + 1] /\ m[2 + 1] = s[2 + 1] /\ m[3 + 1] = s[3 + 1]
      BY <1>1, <1>2, <3>1
    <3>3. SavePlan(m) /\ r[1] = "read"
      BY <1>2, <2>1, <2>3, <3>2 DEF SavePlan
    <3> QED BY <1>1, <1>2, <1>5, <2>3, <3>3 DEF Plan, r, m
  <2> QED BY <2>1, <2>2, <2>3
<1> QED BY <1>3, <1>4, <1>5

LEMMA OneStep ==
    ASSUME NEW x \in StepNames
    PROVE  /\ <<x>> \in Seq(StepNames) /\ <<x>> # <<>> /\ Len(<<x>>) = 1 /\ <<x>>[1] = x
           /\ Head(<<x>>) = x
OBVIOUS

LEMMA StepsPlanned ==
    ASSUME NEW op
    PROVE  /\ Steps(op) \in Seq(StepNames) /\ Steps(op) # <<>> /\ Plan(op, Steps(op))
           /\ Steps(op)[1] \in {"boot", "migrate"}
           /\ op \in Asks => Len(Steps(op)) = 3
           /\ op \notin Asks \cup {"bootstrap"} => Len(Steps(op)) = 4
<1>1. Load \in Seq(StepNames) /\ Len(Load) = 2 /\ Load[1] = "migrate" /\ Load[2] = "read"
  BY DEF Load, StepNames
<1>2. ASSUME NEW b \in Seq(StepNames)
      PROVE  /\ Load \o b \in Seq(StepNames) /\ Len(Load \o b) = Len(Load) + Len(b)
             /\ \A i \in 1 .. Len(Load) + Len(b) :
                   (Load \o b)[i] = IF i <= Len(Load) THEN Load[i] ELSE b[i - Len(Load)]
  BY <1>1, ConcatProperties
<1>3. CASE op = "bootstrap"
  <2>1. Steps(op) = <<"boot">>
    BY <1>3 DEF Steps
  <2>2. "boot" \in StepNames
    BY DEF StepNames
  <2> QED BY <1>3, <2>1, <2>2, OneStep DEF Plan, BootPlan, Asks
<1>4. CASE op \in Asks
  <2> DEFINE b == <<"answer">>  s == Load \o b
  <2>1. b \in Seq(StepNames) /\ Len(b) = 1 /\ b[1] = "answer"
    BY DEF StepNames
  <2> HIDE DEF b
  <2>2. /\ s \in Seq(StepNames) /\ Len(s) = 3
        /\ \A i \in 1 .. 3 : s[i] = IF i <= 2 THEN Load[i] ELSE b[i - 2]
    <3>1. Len(Load) + Len(b) = 3 /\ Len(Load) = 2
      BY <1>1, <2>1
    <3> QED BY <1>2, <2>1, <3>1
  <2> HIDE DEF s
  <2>3. s[1] = Load[1] /\ s[2] = Load[2] /\ s[3] = b[1]
    BY <2>2
  <2>4. s # <<>> /\ AskPlan(s) /\ s[1] = "migrate"
    BY <1>1, <2>1, <2>2, <2>3, EmptySeq DEF AskPlan
  <2>5. Steps(op) = s
    BY <1>4 DEF Steps, s, b, Asks
  <2> QED BY <1>4, <2>2, <2>4, <2>5 DEF Plan, Asks
<1>5. CASE op \notin Asks /\ op # "bootstrap"
  <2> DEFINE b == <<"migrate", "write">>  s == Load \o b
  <2>1. b \in Seq(StepNames) /\ Len(b) = 2 /\ b[1] = "migrate" /\ b[2] = "write"
    BY DEF StepNames
  <2> HIDE DEF b
  <2>2. /\ s \in Seq(StepNames) /\ Len(s) = 4
        /\ \A i \in 1 .. 4 : s[i] = IF i <= 2 THEN Load[i] ELSE b[i - 2]
    BY <1>1, <1>2, <2>1
  <2> HIDE DEF s
  <2>3. s[1] = Load[1] /\ s[2] = Load[2] /\ s[3] = b[1] /\ s[4] = b[2]
    BY <2>2
  <2>4. s # <<>> /\ SavePlan(s) /\ s[1] = "migrate"
    BY <1>1, <2>1, <2>2, <2>3, EmptySeq DEF SavePlan
  <2>5. Steps(op) = s
    BY <1>5 DEF Steps, s, b, Asks
  <2> QED BY <1>5, <2>2, <2>4, <2>5 DEF Plan
<1> QED BY <1>3, <1>4, <1>5

(***************************************************************************)
(* Types.                                                                  *)
(***************************************************************************)
LEMMA QueuesTyped ==
    /\ Empty \in Queue /\ Absent \in Queue /\ Empty.there /\ ~Absent.there
    /\ Empty.kill = FALSE /\ \A a \in Approvals : Empty.approvals[a] = None
    /\ ~HasState(Absent) /\ ~HasState(Empty)
    /\ \A q \in Queue : [q EXCEPT !.there = TRUE] \in Queue
<1>1. Empty \in Queue
  BY DEF Empty, Queue, NoDelegation
<1>2. Absent \in Queue
  BY <1>1 DEF Absent, Queue
<1>3. Empty.there /\ ~Absent.there /\ Empty.kill = FALSE /\ Absent.kill = FALSE
  BY DEF Empty, Absent
<1>4. \A a \in Approvals : Empty.approvals[a] = None /\ Absent.approvals[a] = None
  BY DEF Empty, Absent
<1>5. \A d \in Delegations :
         Empty.delegations[d] = NoDelegation /\ Absent.delegations[d] = NoDelegation
  BY DEF Empty, Absent
<1>6. ~HasState(Absent) /\ ~HasState(Empty)
  BY <1>3, <1>4, <1>5 DEF HasState
<1>7. \A q \in Queue : [q EXCEPT !.there = TRUE] \in Queue
  BY DEF Queue
<1> QED BY <1>1, <1>2, <1>3, <1>4, <1>6, <1>7

LEMMA EditedTyped ==
    ASSUME NEW r \in Thread, Fields(r), r.copy.there
    PROVE  Edited(r) \in Queue /\ Edited(r).there
<1>1. r.copy \in Queue
  BY DEF Thread
<1>2. CASE r.op = "request"
  BY <1>1, <1>2 DEF Edited, Fields, Queue
<1>3. CASE r.op = "decide"
  BY <1>1, <1>3 DEF Edited, Fields, Queue
<1>4. CASE r.op = "delegate"
  <2>1. [to |-> r.agent, until |-> r.arg] \in Delegation
    BY <1>4 DEF Fields, Delegation
  <2> QED BY <1>1, <1>4, <2>1 DEF Edited, Fields, Queue
<1>5. CASE r.op = "revoke"
  BY <1>1, <1>5 DEF Edited, Fields, Queue
<1>6. CASE r.op \in {"engage", "disengage"}
  BY <1>1, <1>6 DEF Edited, Queue
<1>7. CASE r.op \notin {"request", "decide", "delegate", "revoke", "engage", "disengage"}
  BY <1>1, <1>7 DEF Edited
<1> QED BY <1>2, <1>3, <1>4, <1>5, <1>6, <1>7

LEMMA IdleTyped == Idle \in Thread /\ Fields(Idle) /\ Idle.copy.there /\ Idle.todo = <<>>
BY QueuesTyped, EmptySeq DEF Idle, Thread, Fields, None

\* The types of the threads after one of them takes a step.
ThreadsTyped ==
    /\ th \in [Threads -> Thread]
    /\ \A t \in Threads : Fields(th[t]) /\ th[t].copy.there
    /\ \A t \in Threads : Busy(t) => Plan(th[t].op, th[t].todo)
    /\ \A t \in Threads : At(t, "copy") => legacy.there

LEMMA NewThread ==
    ASSUME TypeInv, NEW t \in Threads, NEW n \in Thread, th' = [th EXCEPT ![t] = n],
           legacy' = legacy, Fields(n), n.copy.there,
           n.todo # <<>> => Plan(n.op, n.todo) /\ (n.todo[1] = "copy" => legacy.there)
    PROVE  ThreadsTyped'
<1>1. \A u \in Threads : th'[u] = IF u = t THEN n ELSE th[u]
  BY DEF TypeInv
<1>2. n.todo # <<>> => Head(n.todo) = n.todo[1]
  BY DEF Thread
<1> QED BY <1>1, <1>2 DEF ThreadsTyped, TypeInv, Busy, At

LEMMA Continued ==
    ASSUME TypeInv, NEW t \in Threads, NEW r \in Thread, NEW rest \in Seq(StepNames),
           Continue(t, r, rest), legacy' = legacy, Fields(r), r.copy.there,
           rest # <<>> => Plan(r.op, rest) /\ (rest[1] = "copy" => legacy.there)
    PROVE  /\ ThreadsTyped'
           /\ th' = [th EXCEPT ![t] = IF rest = <<>> THEN Idle ELSE [r EXCEPT !.todo = rest]]
           /\ [r EXCEPT !.todo = rest] \in Thread
<1> DEFINE n == [r EXCEPT !.todo = rest]
<1>1. n \in Thread /\ Fields(n) /\ n.copy = r.copy /\ n.todo = rest /\ n.op = r.op
  BY DEF Thread, Fields
<1> HIDE DEF n
<1>2. th' = [th EXCEPT ![t] = IF rest = <<>> THEN Idle ELSE n]
  BY DEF Continue, n
<1>3. ASSUME rest = <<>> PROVE ThreadsTyped'
  <2>1. th' = [th EXCEPT ![t] = Idle]
    BY <1>2, <1>3
  <2> QED BY <2>1, NewThread, IdleTyped
<1>4. ASSUME rest # <<>> PROVE ThreadsTyped'
  <2>1. th' = [th EXCEPT ![t] = n]
    BY <1>2, <1>4
  <2> QED BY <1>1, <1>4, <2>1, NewThread
<1> QED BY <1>1, <1>2, <1>3, <1>4 DEF n

\* What is known of a busy thread.
LEMMA BusyThread ==
    ASSUME TypeInv, NEW t \in Threads, Busy(t)
    PROVE  /\ th[t] \in Thread /\ Fields(th[t]) /\ th[t].copy.there /\ th[t].copy \in Queue
           /\ th[t].todo \in Seq(StepNames) /\ th[t].todo # <<>> /\ Plan(th[t].op, th[t].todo)
           /\ Head(th[t].todo) = th[t].todo[1]
           /\ Rest(t) \in Seq(StepNames) /\ (Rest(t) # <<>> => Plan(th[t].op, Rest(t)))
           /\ Len(th[t].todo) \in Nat /\ Len(th[t].todo) >= 1
           /\ Len(Rest(t)) = Len(th[t].todo) - 1 /\ (Rest(t) = <<>> <=> Len(th[t].todo) = 1)
<1>1. /\ th[t] \in Thread /\ Fields(th[t]) /\ th[t].copy.there
      /\ th[t].todo # <<>> /\ Plan(th[t].op, th[t].todo)
  BY DEF TypeInv, Busy
<1>2. th[t].todo \in Seq(StepNames) /\ th[t].copy \in Queue
  BY <1>1 DEF Thread
<1> QED BY <1>1, <1>2, TailOf, PlanTail DEF Rest

LEMMA PlanOf ==
    ASSUME NEW op, NEW s, Plan(op, s)
    PROVE  /\ op = "bootstrap" => BootPlan(s)
           /\ op \in Asks => AskPlan(s)
           /\ op \notin Asks /\ op # "bootstrap" => SavePlan(s)
BY DEF Plan, Asks

\* The step after the head is a copy only where the migration put one.
LEMMA NoCopyNext ==
    ASSUME TypeInv, NEW t \in Threads, Busy(t), Rest(t) # <<>>
    PROVE  Rest(t)[1] # "copy"
<1> DEFINE s == th[t].todo  r == Tail(s)
<1>1. s \in Seq(StepNames) /\ s # <<>> /\ Plan(th[t].op, s) /\ Len(s) \in Nat /\ Len(s) >= 2
  BY BusyThread
<1>a. \A i \in 1 .. Len(s) - 1 : r[i] = s[i + 1]
  BY <1>1, TailOf
<1> HIDE DEF s, r
<1>2. r[1] = s[2]
  <2>1. 1 \in 1 .. Len(s) - 1
    BY <1>1
  <2>2. r[1] = s[1 + 1]
    BY <1>a, <2>1
  <2> QED BY <2>2
<1>3. s[2] # "copy"
  <2>1. CASE th[t].op = "bootstrap"
    BY <1>1, <2>1, PlanOf DEF BootPlan
  <2>2. CASE th[t].op \in Asks
    BY <1>1, <2>2, PlanOf DEF AskPlan
  <2>3. CASE th[t].op \notin Asks /\ th[t].op # "bootstrap"
    BY <1>1, <2>3, PlanOf DEF SavePlan
  <2> QED BY <2>1, <2>2, <2>3
<1> QED BY <1>2, <1>3 DEF Rest, s, r

LEMMA InitTyped == Init => TypeInv
<1> SUFFICES ASSUME Init PROVE TypeInv
  OBVIOUS
<1>1. queue \in Queue /\ legacy \in Legacies
  BY AuthorityAssumption, QueuesTyped DEF Init
<1>2. /\ th \in [Threads -> Thread]
      /\ \A t \in Threads : Fields(th[t]) /\ th[t].copy.there /\ th[t].todo = <<>>
  BY IdleTyped DEF Init
<1>3. DOMAIN seen = Threads /\ alone \in BOOLEAN /\ now \in Nat
      /\ said \in [Threads -> {None, "halted", "clear", "delegated", "rights", "denied"}]
  BY DEF Init
<1> QED BY <1>1, <1>2, <1>3 DEF TypeInv, Busy, At

LEMMA ServedTyped ==
    ASSUME TypeInv, NEW t \in Threads,
           Migrate(t) \/ CopyLegacy(t) \/ Boot(t) \/ LoadQueue(t) \/ SaveQueue(t) \/ Answer(t)
    PROVE  ThreadsTyped' /\ legacy' = legacy /\ queue' \in Queue /\ now' = now
<1>0. Busy(t) /\ legacy' = legacy /\ now' = now
  BY DEF Migrate, CopyLegacy, Boot, LoadQueue, SaveQueue, Answer, At, files
<1>a. /\ th[t] \in Thread /\ Fields(th[t]) /\ th[t].copy.there /\ th[t].copy \in Queue
      /\ th[t].todo \in Seq(StepNames) /\ th[t].todo # <<>> /\ Plan(th[t].op, th[t].todo)
      /\ Head(th[t].todo) = th[t].todo[1]
      /\ Rest(t) \in Seq(StepNames) /\ (Rest(t) # <<>> => Plan(th[t].op, Rest(t)))
  BY <1>0, BusyThread
<1>b. ASSUME Continue(t, th[t], Rest(t)) PROVE ThreadsTyped'
  BY <1>0, <1>a, <1>b, Continued, NoCopyNext
<1>c. ASSUME Continue(t, th[t], <<>>) PROVE ThreadsTyped'
  BY <1>0, <1>a, <1>c, Continued, EmptySeq
<1>d. queue \in Queue /\ legacy \in Queue
  BY AuthorityAssumption DEF TypeInv
<1>1. CASE Migrate(t)
  <2>1. CASE NeedsLegacy /\ Continue(t, th[t], <<"copy">> \o Rest(t))
    <3>1. th[t].todo[1] = "migrate" /\ legacy.there
      BY <1>1, <1>a, <2>1 DEF Migrate, At, NeedsLegacy
    <3>2. <<"copy">> \o Rest(t) \in Seq(StepNames) /\ Plan(th[t].op, <<"copy">> \o Rest(t))
      BY <1>a, <3>1, PlanMigrate, CopyBefore DEF Rest
    <3>3. ThreadsTyped'
      BY <1>0, <1>a, <2>1, <3>1, <3>2, Continued
    <3> QED BY <1>0, <1>1, <1>d, <3>3 DEF Migrate, files
  <2> QED BY <1>0, <1>1, <1>b, <1>d, <2>1 DEF Migrate, files
<1>2. CASE CopyLegacy(t)
  BY <1>0, <1>2, <1>b, <1>d DEF CopyLegacy
<1>3. CASE Boot(t)
  <2>1. th[t].todo[1] = "boot"
    BY <1>3, <1>a DEF Boot, At
  <2>2. th[t].op = "bootstrap"
    BY <1>a, <2>1 DEF Plan, AskPlan, SavePlan
  <2>3. ASSUME NEW x \in {"copy", "write"}, Continue(t, th[t], <<x>>), x = "copy" => legacy.there
        PROVE  ThreadsTyped'
    <3>1. <<x>> \in Seq(StepNames) /\ Len(<<x>>) = 1 /\ <<x>>[1] = x
      BY OneStep DEF StepNames
    <3>2. Plan(th[t].op, <<x>>)
      BY <2>2, <3>1 DEF Plan, BootPlan, Asks
    <3> QED BY <1>0, <1>a, <2>3, <3>1, <3>2, Continued
  <2>4. ThreadsTyped'
    BY <1>3, <1>c, <2>3 DEF Boot
  <2> QED BY <1>0, <1>3, <1>d, <2>4 DEF Boot, files
<1>4. CASE LoadQueue(t)
  <2> DEFINE r == [th[t] EXCEPT !.copy = [queue EXCEPT !.there = TRUE]]
  <2>1. /\ r \in Thread /\ Fields(r) /\ r.copy.there /\ r.op = th[t].op
    <3>1. [queue EXCEPT !.there = TRUE] \in Queue /\ [queue EXCEPT !.there = TRUE].there
      BY <1>d, QueuesTyped DEF Queue
    <3> DEFINE c == [queue EXCEPT !.there = TRUE]
    <3> HIDE DEF c
    <3>2. c \in Queue /\ c.there /\ r = [th[t] EXCEPT !.copy = c]
      BY <3>1 DEF c
    <3> QED BY <1>a, <3>2 DEF Thread, Fields
  <2>2. Continue(t, r, Rest(t)) \/ Continue(t, r, <<>>)
    BY <1>4 DEF LoadQueue
  <2> HIDE DEF r
  <2>3. ThreadsTyped'
    BY <1>0, <1>a, <2>1, <2>2, Continued, NoCopyNext, EmptySeq
  <2> QED BY <1>0, <1>4, <1>d, <2>3 DEF LoadQueue, files
<1>5. CASE SaveQueue(t)
  BY <1>0, <1>5, <1>a, <1>b, EditedTyped DEF SaveQueue
<1>6. CASE Answer(t)
  BY <1>0, <1>6, <1>b, <1>d DEF Answer, files
<1> QED BY <1>1, <1>2, <1>3, <1>4, <1>5, <1>6

LEMMA RequestTyped ==
    ASSUME TypeInv, NEW t \in Threads, Request(t)
    PROVE  /\ ThreadsTyped' /\ UNCHANGED <<legacy, queue, now>>
           /\ th'[t].op \in Ops /\ th'[t].todo = Steps(th'[t].op) /\ th'[t].copy = Empty
           /\ th'[t].op \in {"request", "delegate"} => th'[t].id \notin used /\ used' = used \cup {th'[t].id}
           /\ th'[t].op \notin {"request", "delegate"} => used' = used
           /\ \A u \in Threads : u # t => th'[u] = th[u]
<1>0. PICK op \in Ops : \E q \in Asked(op) :
         /\ th' = [th EXCEPT ![t] = [op |-> op, id |-> q.id, agent |-> q.agent, arg |-> q.arg,
                                      todo |-> Steps(op), copy |-> Empty]]
         /\ used' = IF op \in {"request", "delegate"} THEN used \cup {q.id} ELSE used
  BY DEF Request
<1>1. PICK q \in Asked(op) :
         /\ th' = [th EXCEPT ![t] = [op |-> op, id |-> q.id, agent |-> q.agent, arg |-> q.arg,
                                      todo |-> Steps(op), copy |-> Empty]]
         /\ used' = IF op \in {"request", "delegate"} THEN used \cup {q.id} ELSE used
  BY <1>0
<1> DEFINE n == [op |-> op, id |-> q.id, agent |-> q.agent, arg |-> q.arg,
                 todo |-> Steps(op), copy |-> Empty]
<1>2. /\ q.id \in Approvals \cup Delegations \cup {None}
      /\ op \in {"request", "decide"} => q.id \in Approvals
      /\ op \in {"delegate", "revoke"} => q.id \in Delegations
      /\ op \in {"request", "delegate"} => q.id \notin used
  BY DEF Asked
<1>3. /\ q.arg \in Int \cup {"approved", "denied", None}
      /\ op = "decide" => q.arg \in {"approved", "denied"}
      /\ op = "delegate" => q.arg \in Int
  <2>1. \A h \in Hours : now + h \in Int
    BY AuthorityAssumption DEF TypeInv
  <2> QED BY <2>1 DEF Asked
<1>4. /\ q.agent \in Agents \cup {None}
      /\ op \in {"delegate", "check"} => q.agent \in Agents
  BY DEF Asked
<1>5. /\ Steps(op) \in Seq(StepNames) /\ Plan(op, Steps(op)) /\ Steps(op)[1] # "copy"
  BY StepsPlanned
<1>6. /\ n.op = op /\ n.id = q.id /\ n.agent = q.agent /\ n.arg = q.arg /\ n.todo = Steps(op)
      /\ n.copy = Empty
  OBVIOUS
<1>7. n \in Thread
  BY <1>2, <1>3, <1>4, <1>5, QueuesTyped DEF Thread
<1>8. th' = [th EXCEPT ![t] = n]
  BY <1>1
<1> HIDE DEF n
<1>9. Fields(n) /\ n.copy.there
  BY <1>2, <1>3, <1>4, <1>6, QueuesTyped DEF Fields
<1>10. ThreadsTyped' /\ UNCHANGED <<legacy, queue, now>>
  <2>1. UNCHANGED <<legacy, queue, now>>
    BY DEF Request, files
  <2> QED BY <1>5, <1>6, <1>7, <1>8, <1>9, <2>1, NewThread
<1>11. \A u \in Threads : th'[u] = IF u = t THEN n ELSE th[u]
  BY <1>8 DEF TypeInv
<1> QED BY <1>1, <1>2, <1>6, <1>10, <1>11

LEMMA StepTyped == TypeInv /\ [Next]_vars => TypeInv'
<1>1. TypeInv /\ UNCHANGED vars => TypeInv'
  BY DEF TypeInv, vars, Busy, At
<1>2. ASSUME TypeInv, Next PROVE TypeInv'
  <2>0. DOMAIN seen' = Threads /\ alone' \in BOOLEAN
    BY <1>2 DEF Next, Witnessed, TypeInv
  <2>1. CASE Tick
    BY <1>2, <2>0, <2>1 DEF Tick, TypeInv, files, history, Busy, At
  <2>2. ASSUME NEW t \in Threads, Request(t) PROVE TypeInv'
    <3>1. ThreadsTyped' /\ UNCHANGED <<legacy, queue, now>>
      BY <1>2, <2>2, RequestTyped
    <3>2. said' \in [Threads -> {None, "halted", "clear", "delegated", "rights", "denied"}]
      BY <1>2, <2>2 DEF Request, TypeInv
    <3> QED BY <1>2, <2>0, <3>1, <3>2 DEF TypeInv, ThreadsTyped
  <2>3. ASSUME NEW t \in Threads,
               Migrate(t) \/ CopyLegacy(t) \/ Boot(t) \/ LoadQueue(t) \/ SaveQueue(t) \/ Answer(t)
        PROVE  TypeInv'
    <3>1. ThreadsTyped' /\ legacy' = legacy /\ queue' \in Queue /\ now' = now
      BY <1>2, <2>3, ServedTyped
    <3>2. said' \in [Threads -> {None, "halted", "clear", "delegated", "rights", "denied"}]
      <4>1. CASE Answer(t)
        BY <1>2, <4>1 DEF Answer, TypeInv, Verdict
      <4>2. CASE UNCHANGED said
        BY <1>2, <4>2 DEF TypeInv
      <4> QED BY <2>3, <4>1, <4>2
              DEF Migrate, CopyLegacy, Boot, LoadQueue, SaveQueue, history
    <3> QED BY <1>2, <2>0, <3>1, <3>2 DEF TypeInv, ThreadsTyped
  <2> QED BY <1>2, <2>1, <2>2, <2>3 DEF Next
<1> QED BY <1>1, <1>2

\* Every file, copy and request keeps its shape for any number of threads, and
\* what a request has left to do is always a tail of its plan, or a migration
\* that copies the legacy file put in front of one.
THEOREM Typed == Spec => []TypeInv
BY InitTyped, StepTyped, PTL DEF Spec

(***************************************************************************)
(* One step of a thread.                                                   *)
(***************************************************************************)
LEMMA ServedThread ==
    ASSUME TypeInv, NEW t \in Threads, NEW r \in Thread, NEW rest \in Seq(StepNames),
           Continue(t, r, rest)
    PROVE  /\ \A u \in Threads : u # t => th'[u] = th[u]
           /\ rest = <<>> => th'[t] = Idle /\ ~Busy(t)'
           /\ rest # <<>> => /\ th'[t] = [r EXCEPT !.todo = rest]
                             /\ Busy(t)' /\ Head(th'[t].todo) = rest[1]
                             /\ th'[t].todo = rest /\ th'[t].op = r.op /\ th'[t].id = r.id
                             /\ th'[t].agent = r.agent /\ th'[t].arg = r.arg /\ th'[t].copy = r.copy
<1> DEFINE n == [r EXCEPT !.todo = rest]
<1>1. /\ n.todo = rest /\ n.op = r.op /\ n.id = r.id /\ n.agent = r.agent /\ n.arg = r.arg
      /\ n.copy = r.copy
  BY DEF Thread
<1> HIDE DEF n
<1>2. \A u \in Threads : th'[u] = IF u = t THEN (IF rest = <<>> THEN Idle ELSE n) ELSE th[u]
  BY DEF Continue, n, TypeInv
<1>3. rest # <<>> => Head(rest) = rest[1]
  OBVIOUS
<1> QED BY <1>1, <1>2, <1>3, IdleTyped DEF Busy, n

\* Where in its plan a thread stands, by the step it takes.
LEMMA Places ==
    ASSUME TypeInv, NEW t \in Threads, Busy(t)
    PROVE  LET r == th[t] IN
           /\ At(t, "answer") => r.op \in Asks /\ Len(r.todo) = 1
           /\ At(t, "write") => r.op \notin Asks /\ Len(r.todo) = 1
           /\ At(t, "read") => /\ r.op # "bootstrap"
                               /\ r.op \in Asks => Len(r.todo) = 2
                               /\ Changes(r) => Len(r.todo) = 3
           /\ At(t, "boot") => r.op = "bootstrap" /\ Len(r.todo) = 1
           /\ At(t, "migrate") \/ At(t, "copy") =>
                 /\ r.op \in Asks => Len(r.todo) = 3
                 /\ Changes(r) => Len(r.todo) \in {2, 4}
           /\ At(t, "migrate") => r.op # "bootstrap"
           /\ r.op = "bootstrap" => Len(r.todo) = 1
<1> DEFINE r == th[t]  s == r.todo
<1>1. Plan(r.op, s) /\ Head(s) = s[1]
  BY BusyThread
<1>2. \A x : At(t, x) <=> s[1] = x
  BY <1>1 DEF At
<1> HIDE DEF s, r
<1>3. CASE r.op = "bootstrap"
  <2>1. BootPlan(s)
    BY <1>1, <1>3, PlanOf
  <2> QED BY <1>2, <1>3, <2>1 DEF BootPlan, Asks, Changes, r, s
<1>4. CASE r.op \in Asks
  <2>1. AskPlan(s)
    BY <1>1, <1>4, PlanOf
  <2>2. r.op # "bootstrap" /\ ~Changes(r)
    BY <1>4 DEF Asks, Changes
  <2> QED BY <1>2, <1>4, <2>1, <2>2 DEF AskPlan, r, s
<1>5. CASE r.op \notin Asks /\ r.op # "bootstrap"
  <2>1. SavePlan(s)
    BY <1>1, <1>5, PlanOf
  <2> QED BY <1>2, <1>5, <2>1 DEF SavePlan, r, s
<1> QED BY <1>3, <1>4, <1>5

(***************************************************************************)
(* Identifiers.                                                            *)
(***************************************************************************)
LEMMA InitUsed == Init => UsedInv
<1> SUFFICES ASSUME Init PROVE UsedInv
  OBVIOUS
<1>1. \A a \in Approvals : legacy.approvals[a] # None \/ queue.approvals[a] # None => a \in used
  BY QueuesTyped DEF Init, Absent, Queue
<1>2. ~queue.there => queue = Absent
  BY AuthorityAssumption, QueuesTyped DEF Init
<1>3. \A t \in Threads : UsedBy(th[t], used, legacy)
  BY QueuesTyped DEF Init, UsedBy, Idle, None
<1> QED BY <1>1, <1>2, <1>3 DEF UsedInv

LEMMA EditedApprovals ==
    ASSUME NEW r \in Thread, Fields(r), NEW a \in Approvals,
           Edited(r).approvals[a] # r.copy.approvals[a]
    PROVE  \/ r.op = "request" /\ a = r.id /\ Edited(r).approvals[a] = "pending"
           \/ r.op = "decide" /\ a = r.id /\ Edited(r).approvals[a] = r.arg
<1>1. r.copy \in Queue
  BY DEF Thread
<1>2. CASE r.op \in {"request", "decide"}
  BY <1>1, <1>2 DEF Edited, Fields, Queue
<1>3. CASE r.op \in {"delegate", "revoke", "engage", "disengage"}
  BY <1>1, <1>3 DEF Edited, Queue
<1>4. CASE r.op \notin {"request", "decide", "delegate", "revoke", "engage", "disengage"}
  BY <1>1, <1>4 DEF Edited
<1> QED BY <1>2, <1>3, <1>4

LEMMA StepUsed == TypeInv /\ UsedInv /\ [Next]_vars => UsedInv'
<1>1. UsedInv /\ UNCHANGED vars => UsedInv'
  BY DEF UsedInv, UsedBy, vars, Accepts, Changes
<1>2. ASSUME TypeInv, UsedInv, Next PROVE UsedInv'
  <2>1. CASE Tick
    BY <1>2, <2>1 DEF Tick, UsedInv, UsedBy, files, Accepts, Changes
  <2>2. ASSUME NEW t \in Threads, Request(t) PROVE UsedInv'
    <3> DEFINE n == th'[t]
    <3>1. /\ UNCHANGED <<legacy, queue>> /\ n.todo = Steps(n.op) /\ n.copy = Empty
          /\ n.op = "request" => n.id \notin used /\ n.id \in used' /\ n.id \in Approvals
          /\ used \subseteq used'
          /\ \A u \in Threads : u # t => th'[u] = th[u]
      BY <1>2, <2>2, RequestTyped DEF ThreadsTyped, Fields
    <3> HIDE DEF n
    <3>2. Changes(n) => Len(n.todo) = 4
      BY <3>1, StepsPlanned DEF Changes
    <3>3. UsedBy(n, used', legacy')
      BY <1>2, <3>1, <3>2, QueuesTyped DEF UsedBy, UsedInv
    <3>4. \A u \in Threads : u # t => UsedBy(th'[u], used', legacy')
      BY <1>2, <3>1 DEF UsedInv, UsedBy, Accepts, Changes
    <3> QED BY <1>2, <3>1, <3>3, <3>4 DEF UsedInv, n
  <2>3. ASSUME NEW t \in Threads,
               Migrate(t) \/ CopyLegacy(t) \/ Boot(t) \/ LoadQueue(t) \/ SaveQueue(t) \/ Answer(t)
        PROVE  UsedInv'
    <3>0. Busy(t) /\ legacy' = legacy /\ used' = used
      BY <2>3 DEF Migrate, CopyLegacy, Boot, LoadQueue, SaveQueue, Answer, At, files
    <3>a. /\ th[t] \in Thread /\ Fields(th[t]) /\ th[t].copy.there /\ Rest(t) \in Seq(StepNames)
          /\ Len(th[t].todo) \in Nat /\ Len(Rest(t)) = Len(th[t].todo) - 1
          /\ th[t].todo # <<>> /\ queue \in Queue /\ legacy \in Queue
      BY <1>2, <3>0, BusyThread, AuthorityAssumption DEF TypeInv
    <3>b. UsedBy(Idle, used, legacy)
      BY QueuesTyped DEF UsedBy, Idle, None
    <3>c. ASSUME NEW rest \in Seq(StepNames), Continue(t, th[t], rest),
                 rest # <<>> /\ Changes(th[t]) /\ Len(rest) <= 2 => Len(th[t].todo) <= 2
          PROVE  \A u \in Threads : UsedBy(th'[u], used, legacy)
      <4> DEFINE n == th'[t]  m == th[t]
      <4>1. UsedBy(m, used, legacy)
        BY <1>2 DEF UsedInv
      <4>2. /\ rest = <<>> => n = Idle
            /\ rest # <<>> => /\ n.todo = rest /\ n.op = m.op /\ n.id = m.id /\ n.arg = m.arg
                              /\ n.copy = m.copy
            /\ \A u \in Threads : u # t => th'[u] = th[u]
        BY <1>2, <3>a, <3>c, ServedThread
      <4>3. m.todo # <<>> /\ (rest # <<>> /\ Changes(m) /\ Len(rest) <= 2 => Len(m.todo) <= 2)
        BY <3>a, <3>c
      <4> HIDE DEF n, m
      <4>4. UsedBy(n, used, legacy)
        BY <3>b, <4>1, <4>2, <4>3 DEF UsedBy, Changes, Accepts
      <4> QED BY <1>2, <4>2, <4>4 DEF UsedInv, n
    <3>1. CASE Migrate(t)
      <4>1. At(t, "migrate") /\ UNCHANGED queue
        BY <3>1 DEF Migrate, files
      <4>2. Changes(th[t]) => Len(th[t].todo) \in {2, 4}
        BY <1>2, <3>0, <4>1, Places
      <4>3. th[t].todo[1] = "migrate" /\ Plan(th[t].op, th[t].todo) /\ th[t].todo \in Seq(StepNames)
        BY <1>2, <3>0, <4>1, BusyThread DEF At
      <4>4. /\ <<"copy">> \o Rest(t) \in Seq(StepNames)
            /\ Len(<<"copy">> \o Rest(t)) = Len(th[t].todo)
        BY <3>a, <4>3, PlanMigrate, CopyBefore DEF Rest
      <4>5. \A u \in Threads : UsedBy(th'[u], used, legacy)
        <5> DEFINE m == <<"copy">> \o Rest(t)
        <5>1. /\ Rest(t) # <<>> /\ Changes(th[t]) /\ Len(Rest(t)) <= 2 => Len(th[t].todo) <= 2
              /\ m # <<>> /\ Changes(th[t]) /\ Len(m) <= 2 => Len(th[t].todo) <= 2
          <6> DEFINE k == Len(th[t].todo)  l == Len(Rest(t))  j == Len(m)
          <6>1. k \in Nat /\ l = k - 1 /\ j = k /\ (Changes(th[t]) => k \in {2, 4})
            BY <3>a, <4>2, <4>4
          <6> HIDE DEF k, l, j
          <6>2. /\ Rest(t) # <<>> /\ Changes(th[t]) /\ l <= 2 => k <= 2
                /\ m # <<>> /\ Changes(th[t]) /\ j <= 2 => k <= 2
            BY <6>1
          <6> QED BY <6>2 DEF k, l, j
        <5>2. Continue(t, th[t], Rest(t)) \/ Continue(t, th[t], m)
          BY <3>1 DEF Migrate
        <5> HIDE DEF m
        <5>3. m \in Seq(StepNames)
          BY <4>4 DEF m
        <5> QED BY <3>a, <3>c, <5>1, <5>2, <5>3
      <4> QED BY <1>2, <3>0, <4>1, <4>5 DEF UsedInv
    <3>2. CASE CopyLegacy(t)
      <4>1. At(t, "copy") /\ queue' = legacy /\ Continue(t, th[t], Rest(t))
        BY <3>2 DEF CopyLegacy
      <4>2. legacy.there /\ (Changes(th[t]) => Len(th[t].todo) \in {2, 4})
        BY <1>2, <3>0, <4>1, Places DEF TypeInv
      <4>3. \A u \in Threads : UsedBy(th'[u], used, legacy)
        <5>1. Rest(t) # <<>> /\ Changes(th[t]) /\ Len(Rest(t)) <= 2 => Len(th[t].todo) <= 2
          <6> DEFINE k == Len(th[t].todo)  l == Len(Rest(t))
          <6>1. k \in Nat /\ l = k - 1 /\ (Changes(th[t]) => k \in {1, 2, 4})
            BY <3>a, <4>2
          <6> HIDE DEF k, l
          <6>2. Rest(t) # <<>> /\ Changes(th[t]) /\ l <= 2 => k <= 2
            BY <6>1
          <6> QED BY <6>2 DEF k, l
        <5> QED BY <3>a, <3>c, <4>1, <5>1
      <4> QED BY <1>2, <3>0, <4>1, <4>2, <4>3 DEF UsedInv
    <3>3. CASE Boot(t)
      <4>1. At(t, "boot") /\ UNCHANGED queue
        BY <3>3 DEF Boot, files
      <4>2. ~Changes(th[t])
        BY <1>2, <3>0, <4>1, Places DEF Changes
      <4>3. <<"copy">> \in Seq(StepNames) /\ <<"write">> \in Seq(StepNames) /\ <<>> \in Seq(StepNames)
        BY OneStep, EmptySeq DEF StepNames
      <4>4. \A u \in Threads : UsedBy(th'[u], used, legacy)
        BY <3>3, <3>c, <4>2, <4>3 DEF Boot
      <4> QED BY <1>2, <3>0, <4>1, <4>4 DEF UsedInv
    <3>4. CASE LoadQueue(t)
      <4> DEFINE c == [queue EXCEPT !.there = TRUE]  r == [th[t] EXCEPT !.copy = c]
      <4>1. /\ c \in Queue /\ c.approvals = queue.approvals
        BY <3>a, QueuesTyped DEF Queue
      <4>2. /\ UNCHANGED queue
            /\ \/ Accepts(r) /\ Continue(t, r, Rest(t))
               \/ ~Accepts(r) /\ Continue(t, r, <<>>)
        BY <3>4 DEF LoadQueue, files
      <4> HIDE DEF c
      <4>3. r \in Thread /\ r.op = th[t].op /\ r.id = th[t].id /\ r.copy = c
        BY <3>a, <4>1 DEF Thread
      <4> HIDE DEF r
      <4>4. UsedBy(th'[t], used, legacy)
        <5>1. CASE Accepts(r) /\ Continue(t, r, Rest(t)) /\ Rest(t) # <<>>
          <6> DEFINE n == th'[t]
          <6>1. n.op = r.op /\ n.id = r.id /\ n.copy = r.copy
            BY <1>2, <3>a, <4>3, <5>1, ServedThread
          <6> HIDE DEF n
          <6>2. Accepts(n)
            BY <5>1, <6>1 DEF Accepts
          <6>3. UsedBy(n, used, legacy)
            BY <1>2, <3>0, <4>1, <4>3, <6>1, <6>2 DEF UsedInv, UsedBy, Accepts
          <6> QED BY <6>3 DEF n
        <5>2. CASE Continue(t, r, <<>>)
          BY <1>2, <3>0, <3>b, <4>3, <5>2, EmptySeq, ServedThread DEF UsedBy, Accepts, Changes
        <5> QED BY <4>2, <5>1, <5>2
      <4>5. \A u \in Threads : u # t => UsedBy(th'[u], used, legacy)
        BY <1>2, <3>a, <4>2, <4>3, EmptySeq, ServedThread DEF UsedInv
      <4> QED BY <1>2, <3>0, <4>2, <4>4, <4>5 DEF UsedInv
    <3>5. CASE SaveQueue(t)
      <4>1. At(t, "write") /\ queue' = Edited(th[t]) /\ Continue(t, th[t], Rest(t))
        BY <3>5 DEF SaveQueue
      <4>2. Len(th[t].todo) = 1
        BY <1>2, <3>0, <4>1, Places
      <4>3. \A u \in Threads : UsedBy(th'[u], used, legacy)
        <5>1. Rest(t) # <<>> /\ Changes(th[t]) /\ Len(Rest(t)) <= 2 => Len(th[t].todo) <= 2
          <6> DEFINE k == Len(th[t].todo)  l == Len(Rest(t))
          <6>1. k \in Nat /\ l = k - 1 /\ (Changes(th[t]) => k \in {1, 2, 4})
            BY <3>a, <4>2
          <6> HIDE DEF k, l
          <6>2. Rest(t) # <<>> /\ Changes(th[t]) /\ l <= 2 => k <= 2
            BY <6>1
          <6> QED BY <6>2 DEF k, l
        <5> QED BY <3>a, <3>c, <4>1, <5>1
      <4>4. queue'.there
        BY <3>a, <4>1, EditedTyped
      <4>5. ASSUME NEW a \in Approvals, queue'.approvals[a] # None PROVE a \in used
        <5>1. UsedBy(th[t], used, legacy)
          BY <1>2 DEF UsedInv
        <5>2. CASE queue'.approvals[a] = th[t].copy.approvals[a]
          BY <4>5, <5>1, <5>2 DEF UsedBy
        <5>3. CASE th[t].op = "request" /\ a = th[t].id
          BY <5>1, <5>3 DEF UsedBy
        <5>4. CASE th[t].op = "decide" /\ a = th[t].id
          BY <3>a, <4>2, <5>1, <5>4 DEF UsedBy, Changes, Asks, Accepts, None
        <5> QED BY <3>a, <4>1, <5>2, <5>3, <5>4, EditedApprovals
      <4> QED BY <1>2, <3>0, <4>3, <4>4, <4>5 DEF UsedInv
    <3>6. CASE Answer(t)
      <4>1. UNCHANGED queue /\ Continue(t, th[t], Rest(t)) /\ At(t, "answer")
        BY <3>6 DEF Answer, files
      <4>2. Len(th[t].todo) = 1
        BY <1>2, <3>0, <4>1, Places
      <4>3. \A u \in Threads : UsedBy(th'[u], used, legacy)
        <5>1. Rest(t) # <<>> /\ Changes(th[t]) /\ Len(Rest(t)) <= 2 => Len(th[t].todo) <= 2
          <6> DEFINE k == Len(th[t].todo)  l == Len(Rest(t))
          <6>1. k \in Nat /\ l = k - 1 /\ (Changes(th[t]) => k \in {1, 2, 4})
            BY <3>a, <4>2
          <6> HIDE DEF k, l
          <6>2. Rest(t) # <<>> /\ Changes(th[t]) /\ l <= 2 => k <= 2
            BY <6>1
          <6> QED BY <6>2 DEF k, l
        <5> QED BY <3>a, <3>c, <4>1, <5>1
      <4> QED BY <1>2, <3>0, <4>1, <4>3 DEF UsedInv
    <3> QED BY <2>3, <3>1, <3>2, <3>3, <3>4, <3>5, <3>6
  <2> QED BY <1>2, <2>1, <2>2, <2>3 DEF Next
<1> QED BY <1>1, <1>2

(***************************************************************************)
(* Questions.                                                              *)
(***************************************************************************)
LEMMA InitAnswers == Init => AnswerInv
<1> SUFFICES ASSUME Init PROVE AnswerInv
  OBVIOUS
<1>1. \A t \in Threads : /\ th[t].todo = <<>> /\ said[t] = None
                          /\ whom[t] = None /\ th[t].agent = None
  BY IdleTyped DEF Init, Idle
<1> QED BY <1>1 DEF AnswerInv, AnsweredTruly, Busy, None

\* A question without an answer keeps what it has witnessed and sees what is now.
LEMMA WatchGrows ==
    ASSUME Witnessed, NEW t \in Threads, said'[t] = None, th'[t].op \in Asks
    PROVE  Facts' \subseteq seen'[t] /\ (Busy(t) => seen[t] \subseteq seen'[t])
BY DEF Witnessed, Asks

LentAt(q, a, n) == \E d \in Delegations : q.delegations[d].to = a /\ q.delegations[d].until > n

\* What a copy says loses force only by the clock.
LEMMA ToldStays ==
    ASSUME TypeInv, now' >= now, now' \in Nat, NEW t \in Threads, th'[t].copy = th[t].copy,
           seen[t] \subseteq seen'[t], Told(t)
    PROVE  Told(t)'
<1>1. th[t].copy \in Queue
  BY DEF TypeInv, Thread
<1>2. \A d \in Delegations : th[t].copy.delegations[d].until \in Int
  BY <1>1 DEF Queue, Delegation, NoDelegation
<1>3. ASSUME NEW a \in Agents, LentAt(th'[t].copy, a, now') PROVE LentAt(th[t].copy, a, now)
  <2>1. PICK d \in Delegations :
           th[t].copy.delegations[d].to = a /\ th[t].copy.delegations[d].until > now'
    BY <1>3 DEF LentAt
  <2>2. th[t].copy.delegations[d].until > now
    BY <1>2, <2>1 DEF TypeInv
  <2> QED BY <2>1, <2>2 DEF LentAt
<1>4. \A a \in Agents : LentAt(th[t].copy, a, now) => a \in seen'[t]
  BY DEF Told, Lent, LentAt
<1>5. \A a \in Agents : Lent(th[t].copy, a)' => a \in seen'[t]
  BY <1>3, <1>4 DEF Lent, LentAt
<1> QED BY <1>5 DEF Told

\* The steps before the load, and the load.
LEMMA AskStep ==
    ASSUME TypeInv, AnswerInv, Witnessed, NEW t \in Threads, th[t].op \in Asks,
           Migrate(t) \/ CopyLegacy(t) \/ LoadQueue(t), Busy(t)'
    PROVE  Asking(t)' /\ said' = said
<1>1. Busy(t) /\ said' = said /\ now' = now
  BY DEF Migrate, CopyLegacy, LoadQueue, At, history
<1>2. /\ th[t] \in Thread /\ Fields(th[t]) /\ th[t].copy.there /\ Rest(t) \in Seq(StepNames)
      /\ Len(th[t].todo) \in Nat /\ Len(Rest(t)) = Len(th[t].todo) - 1
      /\ Head(th[t].todo) = th[t].todo[1] /\ Plan(th[t].op, th[t].todo)
      /\ th[t].todo \in Seq(StepNames) /\ th[t].todo # <<>>
  BY <1>1, BusyThread
<1>3. said'[t] = None
  BY <1>1 DEF AnswerInv, Asking
<1>4. CASE Migrate(t) \/ CopyLegacy(t)
  <2>1. Len(th[t].todo) = 3
    BY <1>1, <1>4, Places DEF Migrate, CopyLegacy
  <2>2. \E rest \in Seq(StepNames) : Continue(t, th[t], rest) /\ Len(rest) # 1
    <3>1. CASE Continue(t, th[t], Rest(t))
      <4> DEFINE m == Rest(t)
      <4>1. m \in Seq(StepNames) /\ Len(m) = 2
        BY <1>2, <2>1
      <4> HIDE DEF m
      <4>2. Len(m) # 1
        BY <4>1
      <4> QED BY <3>1, <4>1, <4>2 DEF m
    <3>2. CASE Continue(t, th[t], <<"copy">> \o Rest(t)) /\ Migrate(t)
      <4>1. th[t].todo[1] = "migrate"
        BY <1>2, <3>2 DEF Migrate, At
      <4>2. <<"copy">> \o Rest(t) \in Seq(StepNames) /\ Len(<<"copy">> \o Rest(t)) = 3
        BY <1>2, <2>1, <4>1, PlanMigrate, CopyBefore DEF Rest
      <4> DEFINE m == <<"copy">> \o Rest(t)
      <4>3. m \in Seq(StepNames) /\ Len(m) = 3
        BY <4>2
      <4> HIDE DEF m
      <4>4. Len(m) # 1
        BY <4>3
      <4> QED BY <3>2, <4>3, <4>4 DEF m
    <3> QED BY <1>4, <3>1, <3>2 DEF Migrate, CopyLegacy
  <2>3. Len(th'[t].todo) # 1 /\ th'[t].op = th[t].op
    BY <1>2, <2>2, ServedThread
  <2> QED BY <1>1, <1>3, <2>3, WatchGrows DEF Asking
<1>5. CASE LoadQueue(t)
  <2> DEFINE c == [queue EXCEPT !.there = TRUE]  r == [th[t] EXCEPT !.copy = c]
  <2>1. c \in Queue /\ c.kill = queue.kill /\ c.delegations = queue.delegations
    BY QueuesTyped DEF Queue, TypeInv
  <2>2. UNCHANGED queue /\ (Continue(t, r, Rest(t)) \/ Continue(t, r, <<>>))
    BY <1>5 DEF LoadQueue, files
  <2> HIDE DEF c
  <2>3. r \in Thread /\ r.op = th[t].op /\ r.copy = c
    BY <1>2, <2>1 DEF Thread
  <2> HIDE DEF r
  <2>4. th'[t].op = th[t].op /\ th'[t].copy = c
    BY <1>2, <2>2, <2>3, EmptySeq, ServedThread
  <2>5. Facts' \subseteq seen'[t]
    BY <1>3, <2>4, WatchGrows
  <2>6. /\ ~c.kill => "off" \in seen'[t]
        /\ \A a \in Agents : LentAt(c, a, now') => a \in seen'[t]
    <3>1. /\ ~queue'.kill => "off" \in Facts'
          /\ \A a \in Agents : LentAt(queue', a, now') => a \in Facts'
      BY DEF Facts, Lent, LentAt
    <3>2. \A a \in Agents : LentAt(c, a, now') => LentAt(queue', a, now')
      BY <2>1, <2>2 DEF LentAt
    <3> QED BY <2>1, <2>2, <2>5, <3>1, <3>2
  <2>7. Told(t)'
    <3>1. \A a \in Agents : Lent(th[t].copy, a)' => a \in seen'[t]
      BY <2>4, <2>6 DEF Lent, LentAt
    <3> QED BY <2>4, <2>6, <3>1 DEF Told
  <2> QED BY <1>1, <1>3, <2>5, <2>7 DEF Asking
<1> QED BY <1>1, <1>4, <1>5

LEMMA StepAnswers == TypeInv /\ AnswerInv /\ [Next]_vars => AnswerInv'
<1>1. AnswerInv /\ UNCHANGED vars => AnswerInv'
  BY DEF AnswerInv, AnsweredTruly, Asking, Told, Facts, Lent, Busy, vars
<1>2. ASSUME TypeInv, AnswerInv, Next PROVE AnswerInv'
  <2> USE <1>2
  <2>0. Witnessed
    BY DEF Next
  <2>a. ASSUME NEW u \in Threads, th'[u] = th[u], said'[u] = said[u], now' >= now, now' \in Nat
        PROVE  Busy(u)' /\ th'[u].op \in Asks => Asking(u)'
    <3> SUFFICES ASSUME Busy(u)', th'[u].op \in Asks PROVE Asking(u)'
      OBVIOUS
    <3>1. Busy(u) /\ Asking(u)
      BY <2>a DEF Busy, AnswerInv
    <3>2. Facts' \subseteq seen'[u] /\ seen[u] \subseteq seen'[u]
      BY <2>0, <2>a, <3>1, WatchGrows DEF Asking
    <3>3. Told(u) => Told(u)'
      BY <2>a, <3>2, ToldStays
    <3> QED BY <2>a, <3>1, <3>2, <3>3 DEF Asking
  <2>d. \A u \in Threads : said'[u] = None => whom'[u] = th'[u].agent
    BY <2>0 DEF Witnessed
  <2> DEFINE Truly(u) == /\ said'[u] \in {"clear", "delegated", "rights"} => "off" \in seen'[u]
                         /\ said'[u] = "delegated" => whom'[u] \in seen'[u] \cap Agents
                         /\ said'[u] = "rights" => whom'[u] \in Rights
  <2>b. ASSUME NEW u \in Threads, said'[u] = said[u] PROVE Truly(u)
    <3>1. CASE said[u] = None
      BY <2>b, <3>1 DEF None
    <3>2. CASE said[u] # None
      BY <2>0, <2>b, <3>2 DEF Witnessed, AnswerInv, AnsweredTruly
    <3> QED BY <3>1, <3>2
  <2>c. ASSUME \A u \in Threads : Busy(u)' /\ th'[u].op \in Asks => Asking(u)',
               \A u \in Threads : Truly(u)
        PROVE  AnswerInv'
    BY <2>c, <2>d DEF AnswerInv, AnsweredTruly
  <2> HIDE DEF Truly
  <2>1. CASE Tick
    <3>1. UNCHANGED <<th, said>> /\ now' >= now /\ now' \in Nat
      BY <2>1 DEF Tick, history, TypeInv
    <3> QED BY <2>a, <2>b, <2>c, <3>1
  <2>2. ASSUME NEW t \in Threads, Request(t) PROVE AnswerInv'
    <3>1. /\ UNCHANGED <<legacy, queue, now>> /\ th'[t].op \in Ops /\ th'[t].todo = Steps(th'[t].op)
          /\ \A u \in Threads : u # t => th'[u] = th[u]
      BY <2>2, RequestTyped
    <3>2. said'[t] = None /\ (\A u \in Threads : u # t => said'[u] = said[u])
      BY <2>2 DEF Request, TypeInv
    <3>3. th'[t].op \in Asks => Len(th'[t].todo) = 3
      BY <3>1, StepsPlanned
    <3>4. th'[t].op \in Asks => Asking(t)'
      BY <2>0, <3>2, <3>3, WatchGrows DEF Asking
    <3>5. Truly(t)
      BY <3>2 DEF Truly, None
    <3>6. now' >= now /\ now' \in Nat
      BY <3>1 DEF TypeInv
    <3> QED BY <2>a, <2>b, <2>c, <3>1, <3>2, <3>4, <3>5, <3>6
  <2>3. ASSUME NEW t \in Threads,
               Migrate(t) \/ CopyLegacy(t) \/ Boot(t) \/ LoadQueue(t) \/ SaveQueue(t) \/ Answer(t)
        PROVE  AnswerInv'
    <3>0. Busy(t) /\ now' = now
      BY <2>3 DEF Migrate, CopyLegacy, Boot, LoadQueue, SaveQueue, Answer, At, files
    <3>a. /\ th[t] \in Thread /\ Fields(th[t]) /\ Rest(t) \in Seq(StepNames)
          /\ Len(th[t].todo) \in Nat /\ Len(Rest(t)) = Len(th[t].todo) - 1
          /\ Rest(t) = <<>> <=> Len(th[t].todo) = 1
      BY <3>0, BusyThread
    <3>b. now' >= now /\ now' \in Nat
      BY <3>0 DEF TypeInv
    <3>c. \A u \in Threads : u # t => th'[u] = th[u]
      <4>1. \E r, rest : Continue(t, r, rest)
        BY <2>3 DEF Migrate, CopyLegacy, Boot, LoadQueue, SaveQueue, Answer
      <4> QED BY <4>1 DEF Continue, TypeInv
    <3>1. CASE Answer(t)
      <4>1. At(t, "answer") /\ Continue(t, th[t], Rest(t))
        BY <3>1 DEF Answer
      <4>2. th[t].op \in Asks /\ Len(th[t].todo) = 1
        BY <3>0, <4>1, Places
      <4>3. ~Busy(t)'
        BY <3>a, <4>1, <4>2, ServedThread
      <4>4. \A u \in Threads : u # t => said'[u] = said[u]
        BY <3>1 DEF Answer, TypeInv
      <4>5. Truly(t)
        <5> DEFINE x == IF th[t].op = "gate" THEN (IF th[t].copy.kill THEN "halted" ELSE "clear")
                        ELSE Verdict(th[t].copy, th[t].agent)
        <5>1. said'[t] = x
          BY <3>1 DEF Answer, TypeInv
        <5>2. Told(t)
          BY <3>0, <4>2 DEF AnswerInv, Asking
        <5>3. /\ x \in {"clear", "delegated", "rights"} => ~th[t].copy.kill
              /\ x = "delegated" => th[t].op = "check" /\ Lent(th[t].copy, th[t].agent)
              /\ x = "rights" => th[t].agent \in Rights
              /\ x # None
          BY <4>2 DEF Verdict, Asks, None
        <5>4. seen'[t] = seen[t] /\ whom'[t] = th[t].agent
          <6>1. said[t] = None
            BY <3>0, <4>2 DEF AnswerInv, Asking
          <6> QED BY <2>0, <5>1, <5>3, <6>1 DEF Witnessed, AnswerInv
        <5>5. th[t].op = "check" => th[t].agent \in Agents
          BY <3>a DEF Fields
        <5> HIDE DEF x
        <5> QED BY <5>1, <5>2, <5>3, <5>4, <5>5 DEF Truly, Told
      <4> QED BY <2>a, <2>b, <2>c, <3>b, <3>c, <4>3, <4>4, <4>5
    <3>2. CASE ~Answer(t)
      <4>1. said' = said
        BY <2>3, <3>2 DEF Migrate, CopyLegacy, Boot, LoadQueue, SaveQueue, history
      <4>2. ASSUME Busy(t)', th'[t].op \in Asks PROVE Asking(t)'
        <5>1. th'[t].op = th[t].op
          <6>1. ASSUME NEW rest \in Seq(StepNames), Continue(t, th[t], rest)
                PROVE  th'[t].op = th[t].op
            BY <3>a, <4>2, <6>1, ServedThread
          <6>2. \A x : Continue(t, th[t], <<x>>) /\ x \in StepNames => th'[t].op = th[t].op
            BY <6>1, OneStep
          <6>3. CASE Migrate(t)
            <7>1. <<"copy">> \o Rest(t) \in Seq(StepNames)
              BY <3>a, CopyBefore
            <7> QED BY <3>a, <6>1, <6>3, <7>1 DEF Migrate
          <6>4. CASE LoadQueue(t)
            <7> DEFINE r == [th[t] EXCEPT !.copy = [queue EXCEPT !.there = TRUE]]
            <7>1. r \in Thread /\ r.op = th[t].op
              BY <3>a, QueuesTyped DEF Thread, TypeInv
            <7>2. Continue(t, r, Rest(t)) \/ Continue(t, r, <<>>)
              BY <6>4 DEF LoadQueue
            <7> HIDE DEF r
            <7> QED BY <3>a, <4>2, <7>1, <7>2, EmptySeq, ServedThread
          <6>5. CASE Boot(t)
            BY <6>1, <6>2, <6>5, EmptySeq DEF Boot, StepNames
          <6>6. CASE CopyLegacy(t) \/ SaveQueue(t)
            BY <3>a, <6>1, <6>6 DEF CopyLegacy, SaveQueue
          <6> QED BY <2>3, <3>2, <6>3, <6>4, <6>5, <6>6
        <5>2. th[t].op \in Asks
          BY <4>2, <5>1
        <5>3. ~Boot(t) /\ ~SaveQueue(t)
          BY <3>0, <5>2, Places DEF Boot, SaveQueue, Asks
        <5> QED BY <2>0, <2>3, <3>2, <4>2, <5>2, <5>3, AskStep
      <4> QED BY <2>a, <2>b, <2>c, <3>b, <3>c, <4>1, <4>2
    <3> QED BY <3>1, <3>2
  <2> QED BY <2>1, <2>2, <2>3 DEF Next
<1> QED BY <1>1, <1>2

\* Whoever is let through was so entitled at some moment of the request, with any
\* number of requests at once: the kill switch was off, a delegation named as the
\* reason was in force and made out to the agent that was asked about, and rights
\* named as the reason are that agent's.
THEOREM AlwaysAnsweredTruly == Spec => []AnsweredTruly
<1>1. Spec => []AnswerInv
  BY InitAnswers, StepAnswers, Typed, PTL DEF Spec
<1>2. AnswerInv => AnsweredTruly
  BY DEF AnswerInv
<1> QED BY <1>1, <1>2, PTL

(***************************************************************************)
(* One request at a time.                                                  *)
(***************************************************************************)
\* What holds of the thread that was served, whatever it did.
LEMMA StepServing ==
    ASSUME TypeInv, UsedInv, AloneInv, alone, NEW t \in Threads, Busy(t)',
           Migrate(t) \/ CopyLegacy(t) \/ Boot(t) \/ LoadQueue(t) \/ SaveQueue(t) \/ Answer(t)
    PROVE  Serving(t)'
<1> DEFINE n == th'[t]  m == th[t]  k == Len(m.todo)
<1>0. Busy(t) /\ legacy' = legacy
  BY DEF Migrate, CopyLegacy, Boot, LoadQueue, SaveQueue, Answer, At, files
<1>1. /\ m \in Thread /\ Rest(t) \in Seq(StepNames)
      /\ k \in Nat /\ Len(Rest(t)) = k - 1
      /\ Rest(t) = <<>> <=> k = 1
      /\ Head(m.todo) = m.todo[1] /\ Plan(m.op, m.todo)
      /\ m.todo \in Seq(StepNames) /\ m.todo # <<>>
  BY <1>0, BusyThread
<1>2. Serving(t)
  BY <1>0 DEF AloneInv
<1>12. Changes(m) => (k <= 3 => ~NeedsLegacy) /\ (k <= 2 => ~At(t, "copy"))
  BY <1>2 DEF Serving
<1>3. UsedBy(m, used, legacy)
  BY DEF UsedInv
<1>4. \A x : At(t, x)' <=> Head(n.todo) = x
  BY DEF At
<1>5. \A x : At(t, x) => m.todo[1] = x
  BY <1>1 DEF At
<1>6. ASSUME NEW r \in Thread, NEW rest \in Seq(StepNames), Continue(t, r, rest)
      PROVE  /\ rest # <<>> /\ n.todo = rest /\ Len(n.todo) = Len(rest) /\ Head(n.todo) = rest[1]
             /\ n.op = r.op /\ n.id = r.id /\ n.copy = r.copy
  BY <1>6, ServedThread
<1> HIDE DEF n
<1>7. CASE Migrate(t)
  <2>1. At(t, "migrate") /\ UNCHANGED queue /\ m.todo[1] = "migrate"
    BY <1>5, <1>7 DEF Migrate, files
  <2>2. m.op # "bootstrap" /\ (Changes(m) => k \in {2, 4})
    BY <1>0, <2>1, Places
  <2>3. NeedsLegacy' = NeedsLegacy /\ HasState(queue)' = HasState(queue)
    BY <1>0, <2>1 DEF NeedsLegacy, HasState
  <2>4. CASE NeedsLegacy /\ Continue(t, m, <<"copy">> \o Rest(t))
    <3> DEFINE c == <<"copy">> \o Rest(t)
    <3>1. c \in Seq(StepNames) /\ Len(c) = k
      BY <1>1, <2>1, PlanMigrate, CopyBefore DEF Rest
    <3>2. Continue(t, m, c)
      BY <2>4
    <3> HIDE DEF c
    <3>3. Len(n.todo) = k /\ n.op = m.op /\ n.id = m.id
      BY <1>1, <1>6, <3>1, <3>2
    <3>4. ~HasState(queue)
      BY <2>4, QueuesTyped DEF NeedsLegacy, UsedInv
    <3>5. Changes(m) => k = 4
      BY <1>1, <1>2, <2>2, <2>4 DEF Serving
    <3>6. Changes(n) => Changes(m) /\ ~(Len(n.todo) <= 3) /\ ~(Len(n.todo) <= 2)
      <4> DEFINE j == Len(n.todo)
      <4>1. j = k /\ (Changes(n) => Changes(m))
        BY <3>3 DEF Changes
      <4> HIDE DEF j, k, m
      <4>2. Changes(n) => ~(j <= 3) /\ ~(j <= 2)
        BY <3>5, <4>1
      <4> QED BY <4>1, <4>2 DEF j
    <3>7. n.op # "bootstrap"
      BY <2>2, <3>3
    <3> QED BY <1>2, <2>1, <2>3, <3>3, <3>4, <3>6, <3>7 DEF Serving, n
  <2>5. CASE ~NeedsLegacy /\ Continue(t, m, Rest(t))
    <3>1. /\ Rest(t) # <<>> /\ Len(n.todo) = k - 1 /\ n.op = m.op /\ n.id = m.id /\ n.copy = m.copy
          /\ Head(n.todo) = Rest(t)[1]
      BY <1>1, <1>6, <2>5
    <3>2. ~At(t, "copy")'
      BY <1>0, <1>4, <3>1, NoCopyNext
    <3>3. n.op # "bootstrap" /\ (Changes(n) => Changes(m))
      BY <2>2, <3>1 DEF Changes
    <3>4. Changes(n) /\ Len(n.todo) <= 2 => k <= 2
      <4> DEFINE j == Len(n.todo)
      <4>1. j = k - 1 /\ (Changes(n) => Changes(m))
        BY <3>1, <3>3
      <4> HIDE DEF j, k, m
      <4>2. Changes(n) /\ j <= 2 => k <= 2
        BY <2>2, <4>1
      <4> QED BY <4>2 DEF j
    <3> QED BY <1>2, <2>1, <2>3, <2>5, <3>1, <3>2, <3>3, <3>4 DEF Serving, n
  <2> QED BY <1>7, <2>4, <2>5 DEF Migrate
<1>8. CASE CopyLegacy(t)
  <2>1. At(t, "copy") /\ queue' = legacy /\ Continue(t, m, Rest(t))
    BY <1>8 DEF CopyLegacy
  <2>2. /\ Rest(t) # <<>> /\ Len(n.todo) = k - 1 /\ n.op = m.op /\ n.id = m.id
        /\ Head(n.todo) = Rest(t)[1]
    BY <1>1, <1>6, <2>1
  <2>3. m.op # "bootstrap" /\ (Changes(m) => k \in {2, 4}) /\ legacy.there
    BY <1>0, <1>1, <2>1, <2>2, Places DEF TypeInv
  <2>4. ~At(t, "copy")'
    BY <1>0, <1>4, <2>2, NoCopyNext
  <2>5. ~NeedsLegacy'
    BY <1>0, <2>1, <2>3 DEF NeedsLegacy, HasState
  <2>6. Changes(n) => Changes(m)
    BY <2>2 DEF Changes
  <2>8. Changes(n) => ~(Len(n.todo) <= 2)
    <3> DEFINE j == Len(n.todo)
    <3>1. j = k - 1
      BY <2>2
    <3> HIDE DEF j, k, m
    <3>2. Changes(m) => k = 4
      BY <1>12, <2>1, <2>3
    <3>3. Changes(n) => ~(j <= 2)
      BY <2>6, <3>1, <3>2
    <3> QED BY <3>3 DEF j
  <2>9. n.op = "request" => queue'.approvals[n.id] = None
    BY <1>3, <2>1, <2>2 DEF UsedBy
  <2>10. n.op # "bootstrap"
    BY <2>2, <2>3
  <2> QED BY <2>4, <2>5, <2>8, <2>9, <2>10 DEF Serving, n
<1>9. CASE Boot(t)
  <2>1. At(t, "boot") /\ UNCHANGED queue
    BY <1>9 DEF Boot, files
  <2>2. m.op = "bootstrap" /\ m.copy = Empty
    BY <1>0, <1>2, <2>1, Places DEF Serving
  <2>3. ~Changes(m)
    BY <2>2 DEF Changes
  <2>4. ASSUME NEW x \in {"copy", "write"}, Continue(t, m, <<x>>),
               x = "copy" => ~HasState(queue), x = "write" => ~queue.there
        PROVE  Serving(t)'
    <3>1. <<x>> \in Seq(StepNames) /\ <<x>>[1] = x
      BY OneStep DEF StepNames
    <3>2. Head(n.todo) = x /\ n.op = m.op /\ n.copy = Empty
      BY <1>1, <1>6, <2>2, <2>4, <3>1
    <3>3. ~Changes(n)
      BY <2>3, <3>2 DEF Changes
    <3>4. HasState(queue)' = HasState(queue)
      BY <2>1 DEF HasState
    <3> QED BY <1>4, <2>1, <2>4, <3>2, <3>3, <3>4 DEF Serving, n
  <2>5. ~Continue(t, m, <<>>)
    BY <1>1, <1>6, EmptySeq
  <2> QED BY <1>9, <2>4, <2>5 DEF Boot
<1>10. CASE LoadQueue(t)
  <2> DEFINE c == [queue EXCEPT !.there = TRUE]  r == [m EXCEPT !.copy = c]
  <2>1. c \in Queue
    BY QueuesTyped DEF TypeInv
  <2>2. At(t, "read") /\ UNCHANGED queue /\ (Continue(t, r, Rest(t)) \/ Continue(t, r, <<>>))
    BY <1>10 DEF LoadQueue, files
  <2> HIDE DEF c
  <2>3. r \in Thread /\ r.op = m.op /\ r.id = m.id /\ r.copy = c
    BY <1>1, <2>1 DEF Thread
  <2> HIDE DEF r
  <2>4. /\ Rest(t) # <<>> /\ Len(n.todo) = k - 1 /\ n.op = m.op /\ n.id = m.id /\ n.copy = c
        /\ Head(n.todo) = Rest(t)[1]
    BY <1>1, <1>6, <2>2, <2>3, EmptySeq
  <2>5. ~At(t, "copy")'
    BY <1>0, <1>4, <2>4, NoCopyNext
  <2>6. m.op # "bootstrap" /\ (Changes(m) => k = 3)
    BY <1>0, <2>2, Places
  <2>7. n.op # "bootstrap" /\ (Changes(n) => Changes(m))
    BY <2>4, <2>6 DEF Changes
  <2>8. Changes(m) => ~NeedsLegacy
    <3> HIDE DEF k, m
    <3> QED BY <1>12, <2>6
  <2>9. NeedsLegacy' = NeedsLegacy
    BY <1>0, <2>2 DEF NeedsLegacy, HasState
  <2> QED BY <1>2, <2>2, <2>4, <2>5, <2>7, <2>8, <2>9 DEF Serving, n, c
<1>11. CASE SaveQueue(t) \/ Answer(t)
  <2>1. Continue(t, m, Rest(t)) /\ k = 1
    BY <1>0, <1>11, Places DEF SaveQueue, Answer
  <2> QED BY <1>1, <1>6, <2>1
<1> QED BY <1>7, <1>8, <1>9, <1>10, <1>11

LEMMA StepAlone == TypeInv /\ UsedInv /\ AloneInv /\ [Next]_vars => AloneInv'
<1>1. AloneInv /\ UNCHANGED vars => AloneInv'
  BY DEF AloneInv, Serving, NeedsLegacy, HasState, Changes, At, Busy, vars, files
<1>2. ASSUME TypeInv, UsedInv, AloneInv, Next, alone' PROVE AloneInv'
  <2> USE <1>2
  <2>1. alone /\ \A t, u \in Threads : Busy(t)' /\ Busy(u)' => t = u
    BY DEF Next
  <2>2. CASE Tick
    <3>1. UNCHANGED <<legacy, queue, th>>
      BY <2>2 DEF Tick, files
    <3> QED BY <2>1, <3>1 DEF AloneInv, Serving, NeedsLegacy, HasState, Changes, At, Busy
  <2>3. ASSUME NEW t \in Threads, Request(t), NEW u \in Threads, Busy(u)' PROVE Serving(u)'
    <3> DEFINE n == th'[t]
    <3>1. /\ UNCHANGED <<legacy, queue>> /\ n.todo = Steps(n.op) /\ n.copy = Empty
          /\ n.op = "request" => n.id \notin used /\ n.id \in Approvals
      BY <2>3, RequestTyped DEF ThreadsTyped, Fields
    <3>2. /\ n.todo \in Seq(StepNames) /\ n.todo # <<>> /\ n.todo[1] \in {"boot", "migrate"}
          /\ Changes(n) => Len(n.todo) = 4
      BY <3>1, StepsPlanned DEF Changes
    <3>3. u = t
      BY <2>1, <2>3, <3>2 DEF Busy
    <3>4. Head(n.todo) = n.todo[1]
      BY <3>2
    <3>5. \A x : At(t, x)' => x \in {"boot", "migrate"}
      BY <3>2, <3>4 DEF At
    <3> HIDE DEF n
    <3>6. n.op = "request" => queue'.approvals[n.id] = None
      BY <3>1 DEF UsedInv
    <3>7. Changes(n) => ~(Len(n.todo) <= 3) /\ ~(Len(n.todo) <= 2)
      <4> DEFINE j == Len(n.todo)
      <4>1. Changes(n) => j = 4
        BY <3>2
      <4> HIDE DEF j
      <4>2. Changes(n) => ~(j <= 3) /\ ~(j <= 2)
        BY <4>1
      <4> QED BY <4>2 DEF j
    <3>8. ~At(t, "copy")' /\ ~At(t, "write")'
      BY <3>5
    <3> QED BY <3>1, <3>3, <3>6, <3>7, <3>8 DEF Serving, n
  <2>4. ASSUME NEW t \in Threads,
               Migrate(t) \/ CopyLegacy(t) \/ Boot(t) \/ LoadQueue(t) \/ SaveQueue(t) \/ Answer(t),
               NEW u \in Threads, Busy(u)'
        PROVE  Serving(u)'
    <3>0. Busy(t)
      BY <2>4 DEF Migrate, CopyLegacy, Boot, LoadQueue, SaveQueue, Answer, At
    <3>1. \A v \in Threads : v # t => th'[v] = th[v]
      <4>1. \E r, rest : Continue(t, r, rest)
        BY <2>4 DEF Migrate, CopyLegacy, Boot, LoadQueue, SaveQueue, Answer
      <4> QED BY <4>1 DEF Continue, TypeInv
    <3>2. u = t
      BY <2>1, <2>4, <3>0, <3>1 DEF AloneInv, Busy
    <3> QED BY <2>1, <2>4, <3>2, StepServing
  <2> QED BY <2>1, <2>2, <2>3, <2>4 DEF Next, AloneInv
<1> QED BY <1>1, <1>2 DEF AloneInv

LEMMA InitAlone == Init => AloneInv
BY IdleTyped DEF Init, AloneInv, Busy

\* While no two requests are served at once, what stands in the queue stands until
\* a request changes it, legacy file or not, file missing or not: the kill switch
\* goes off only to be disengaged, a decision is final, an approval is not lost.
THEOREM QueueAlwaysHolds == Spec => QueueHolds
<1> DEFINE Hold ==
       /\ queue.kill /\ ~queue'.kill => \E t \in Threads : At(t, "write") /\ th[t].op = "disengage"
       /\ \A a \in Approvals : queue.approvals[a] # queue'.approvals[a] =>
             queue.approvals[a] \in {None, "pending"} /\ queue'.approvals[a] # None
<1>1. ASSUME TypeInv, UsedInv, AloneInv, [Next]_vars, alone PROVE Hold
  <2> USE <1>1
  <2>1. CASE UNCHANGED queue
    BY <2>1
  <2>2. ASSUME NEW t \in Threads, CopyLegacy(t) PROVE Hold
    <3>1. Serving(t) /\ At(t, "copy") /\ queue' = legacy
      BY <2>2 DEF CopyLegacy, AloneInv, At
    <3> QED BY <3>1 DEF Serving, HasState
  <2>3. ASSUME NEW t \in Threads, SaveQueue(t) PROVE Hold
    <3> DEFINE r == th[t]
    <3>1. At(t, "write") /\ Busy(t) /\ queue' = Edited(r) /\ Serving(t) /\ UsedBy(r, used, legacy)
      BY <2>3 DEF SaveQueue, AloneInv, At, UsedInv
    <3>2. r \in Thread /\ Fields(r) /\ Len(r.todo) = 1 /\ r.op \notin Asks /\ r.todo # <<>>
      BY <3>1, BusyThread, Places
    <3>3. queue \in Queue /\ r.copy \in Queue
      BY <3>2 DEF TypeInv, Thread
    <3> HIDE DEF r
    <3>4. CASE r.op = "bootstrap"
      <4>1. queue = Absent /\ queue' = Empty
        BY <3>1, <3>4 DEF Serving, UsedInv, Edited, r
      <4>2. Absent.kill = FALSE /\ \A a \in Approvals : Absent.approvals[a] = Empty.approvals[a]
        BY DEF Absent, Empty
      <4> QED BY <4>1, <4>2
    <3>5. CASE Changes(r)
      <4>1. r.copy = [queue EXCEPT !.there = TRUE] /\ Accepts(r)
            /\ (r.op = "request" => queue.approvals[r.id] = None)
        BY <3>1, <3>2, <3>5 DEF Serving, UsedBy, r
      <4>2. r.copy.kill = queue.kill /\ r.copy.approvals = queue.approvals
        BY <3>3, <4>1 DEF Queue
      <4>3. queue.kill /\ ~queue'.kill => r.op = "disengage"
        <5>1. r.op # "disengage" => queue'.kill = r.copy.kill \/ queue'.kill = TRUE
          BY <3>1, <3>3 DEF Edited, Queue
        <5> QED BY <3>3, <4>2, <5>1
      <4>4. ASSUME NEW a \in Approvals, queue.approvals[a] # queue'.approvals[a]
            PROVE  queue.approvals[a] \in {None, "pending"} /\ queue'.approvals[a] # None
        <5>1. \/ r.op = "request" /\ a = r.id /\ queue'.approvals[a] = "pending"
              \/ r.op = "decide" /\ a = r.id /\ queue'.approvals[a] = r.arg
          BY <3>1, <3>2, <4>2, <4>4, EditedApprovals
        <5> QED BY <3>2, <4>1, <4>2, <5>1 DEF Accepts, Fields, None
      <4> QED BY <3>1, <4>3, <4>4 DEF r
    <3> QED BY <3>2, <3>4, <3>5 DEF Changes
  <2> QED BY <2>1, <2>2, <2>3
          DEF Next, Tick, Request, Migrate, Boot, LoadQueue, Answer, files, vars
<1>2. TypeInv /\ UsedInv /\ AloneInv /\ [Next]_vars => [alone => Hold]_vars
  BY <1>1
<1>3. Spec => [](UsedInv /\ AloneInv)
  BY InitUsed, StepUsed, InitAlone, StepAlone, Typed, PTL DEF Spec
<1> QED BY <1>2, <1>3, Typed, PTL DEF Spec, QueueHolds

(***************************************************************************)
(* The settlement journal.                                                 *)
(***************************************************************************)
Entry == [event : {"settled", "recorded", "duplicate", "failed"}, ref : PaymentRefs \cup {NoRef}]
Process == [at : {"down", "next", "up", "hook", "book", "close", "tag", "failed"},
            ref : PaymentRefs \cup {NoRef}, dup : BOOLEAN, todo : Seq(PaymentRefs \cup {NoRef})]

SjTyped ==
    /\ mjournal \in Seq(Entry)
    /\ booked \subseteq PaymentRefs \cup {NoRef}
    /\ proc \in [Servers -> Process]

\* A process that is about to close a payment has booked it, a duplicate too.
Known(e, log, orders) ==
    /\ e.event = "settled" /\ e.ref # NoRef =>
         e.ref \in orders \/ \E j \in Pending(log) : log[j].ref = e.ref
    /\ e.event \in {"recorded", "duplicate"} => e.ref \in orders
SjInv ==
    /\ \A p \in Servers : proc[p].at = "close" => proc[p].ref \in booked
    /\ \A i \in DOMAIN mjournal : Known(mjournal[i], mjournal, booked)

\* An entry keeps every payment pending but the one it settles or closes, and a
\* settlement is pending itself.
LEMMA PendingAppend ==
    ASSUME NEW log \in Seq(Entry), NEW e \in Entry
    PROVE  /\ \A j \in Pending(log) :
                 log[j].ref # e.ref \/ e.event = "failed" =>
                    j \in Pending(Append(log, e)) /\ Append(log, e)[j] = log[j]
           /\ e.event = "settled" /\ e.ref # NoRef =>
                 Len(log) + 1 \in Pending(Append(log, e)) /\ Append(log, e)[Len(log) + 1] = e
<1> DEFINE new == Append(log, e)  n == Len(log)
<1>1. /\ n \in Nat /\ Len(new) = n + 1 /\ DOMAIN log = 1 .. n /\ DOMAIN new = 1 .. n + 1
      /\ \A i \in 1 .. n : new[i] = log[i]
      /\ new[n + 1] = e
  OBVIOUS
<1> HIDE DEF new, n
<1>2. ASSUME NEW j \in Pending(log), log[j].ref # e.ref \/ e.event = "failed"
      PROVE  j \in Pending(new) /\ new[j] = log[j]
  <2>1. /\ j \in 1 .. n /\ log[j].event = "settled" /\ log[j].ref # NoRef
        /\ \A k \in j + 1 .. n : log[k].ref = log[j].ref =>
              /\ log[k].event \notin {"recorded", "duplicate"}
              /\ ~(log[k].event = "settled" /\ log[k].ref # NoRef)
    BY <1>1, <1>2 DEF Pending, n
  <2>2. new[j] = log[j] /\ j \in DOMAIN new
    BY <1>1, <2>1
  <2>3. ASSUME NEW k \in j + 1 .. n + 1, new[k].ref = new[j].ref
        PROVE  /\ new[k].event \notin {"recorded", "duplicate"}
               /\ ~(new[k].event = "settled" /\ new[k].ref # NoRef)
    <3>1. CASE k = n + 1
      BY <1>1, <1>2, <2>2, <2>3, <3>1
    <3>2. CASE k \in j + 1 .. n
      <4>1. new[k] = log[k]
        BY <1>1, <2>1, <3>2
      <4> QED BY <2>1, <2>2, <2>3, <3>2, <4>1
    <3> QED BY <1>1, <2>1, <3>1, <3>2
  <2> QED BY <1>1, <2>1, <2>2, <2>3 DEF Pending
<1>3. ASSUME e.event = "settled", e.ref # NoRef
      PROVE  n + 1 \in Pending(new)
  <2>1. n + 1 + 1 .. Len(new) = {}
    BY <1>1
  <2> QED BY <1>1, <1>3, <2>1 DEF Pending
<1> QED BY <1>1, <1>2, <1>3 DEF new, n

LEMMA PendingFinite ==
    ASSUME NEW log \in Seq(Entry)
    PROVE  Cardinality(Pending(log)) \in Nat /\ \A j \in Pending(log) : log[j].ref \in PaymentRefs \cup {NoRef}
<1>1. Pending(log) \subseteq 1 .. Len(log) /\ Len(log) \in Nat
  BY DEF Pending
<1>2. IsFiniteSet(1 .. Len(log))
  BY <1>1, FS_Interval
<1>3. Cardinality(Pending(log)) \in Nat
  BY <1>1, <1>2, FS_Subset, FS_CardinalityType
<1>4. \A j \in 1 .. Len(log) : log[j] \in Entry
  OBVIOUS
<1> QED BY <1>1, <1>3, <1>4 DEF Entry

LEMMA InitJournal == SjInit => SjTyped /\ SjInv
BY DEF SjInit, SjTyped, SjInv, Process, Down

LEMMA TypedStep == SjTyped /\ [SjNext]_mcpvars => SjTyped'
<1> SUFFICES ASSUME SjTyped, [SjNext]_mcpvars PROVE SjTyped'
  OBVIOUS
<1>0. CASE UNCHANGED mcpvars
  BY <1>0 DEF SjTyped, mcpvars
<1>1. ASSUME NEW p \in Servers, Start(p) PROVE SjTyped'
  <2>1. PICK order \in [1 .. Cardinality(Pending(mjournal)) -> Pending(mjournal)] :
           proc' = [proc EXCEPT ![p] = [Down EXCEPT !.at = "next",
                        !.todo = [i \in DOMAIN order |-> mjournal[order[i]].ref]]]
    BY <1>1 DEF Start
  <2>2. [i \in DOMAIN order |-> mjournal[order[i]].ref] \in Seq(PaymentRefs \cup {NoRef})
    <3>1. mjournal \in Seq(Entry)
      BY DEF SjTyped
    <3>2. Cardinality(Pending(mjournal)) \in Nat
      BY <3>1, PendingFinite
    <3>3. \A i \in 1 .. Cardinality(Pending(mjournal)) :
             mjournal[order[i]].ref \in PaymentRefs \cup {NoRef}
      BY <3>1, PendingFinite
    <3>4. DOMAIN order = 1 .. Cardinality(Pending(mjournal))
      OBVIOUS
    <3> DEFINE n == Cardinality(Pending(mjournal))  f == [i \in DOMAIN order |-> mjournal[order[i]].ref]
    <3>5. f \in [1 .. n -> PaymentRefs \cup {NoRef}]
      BY <3>3, <3>4
    <3> QED BY <3>2, <3>5
  <2> DEFINE q == [i \in DOMAIN order |-> mjournal[order[i]].ref]
             r == [Down EXCEPT !.at = "next", !.todo = q]
  <2>3. proc' = [proc EXCEPT ![p] = r] /\ q \in Seq(PaymentRefs \cup {NoRef})
    BY <2>1, <2>2
  <2> HIDE DEF q
  <2>4. r \in Process
    BY <2>3 DEF Process, Down
  <2> HIDE DEF r
  <2> QED BY <1>1, <2>3, <2>4 DEF SjTyped, Start
<1>2. ASSUME NEW p \in Servers, Recover(p) PROVE SjTyped'
  <2>1. proc[p] \in Process
    BY DEF SjTyped
  <2>2. proc[p].todo # <<>> => /\ Head(proc[p].todo) \in PaymentRefs \cup {NoRef}
                               /\ Tail(proc[p].todo) \in Seq(PaymentRefs \cup {NoRef})
    <3>1. proc[p].todo \in Seq(PaymentRefs \cup {NoRef})
      BY <2>1 DEF Process
    <3> QED BY <3>1
  <2>3. \E r \in Process : proc' = [proc EXCEPT ![p] = r]
    <3> DEFINE h == Head(proc[p].todo)  q == Tail(proc[p].todo)
    <3> HIDE DEF h, q
    <3>1. [proc[p] EXCEPT !.at = "up"] \in Process
      BY <2>1 DEF Process
    <3>2. proc[p].todo # <<>> => [proc[p] EXCEPT !.at = "book", !.ref = h, !.todo = q] \in Process
      BY <2>1, <2>2 DEF Process, h, q
    <3> QED BY <1>2, <3>1, <3>2 DEF Recover, h, q
  <2> QED BY <1>2, <2>3 DEF SjTyped, Recover
<1>3. ASSUME NEW p \in Servers, Settled(p) \/ Book(p) \/ Stop(p) PROVE SjTyped'
  <2>1. \E r \in Process : proc' = [proc EXCEPT ![p] = r]
    <3>1. proc[p] \in Process
      BY DEF SjTyped
    <3>2. CASE Settled(p)
      <4>1. PICK ref \in PaymentRefs \cup {NoRef} :
               proc' = [proc EXCEPT ![p] = [proc[p] EXCEPT !.at = "hook", !.ref = ref]]
        BY <3>1, <3>2 DEF Settled, SjTyped, Process
      <4>2. [proc[p] EXCEPT !.at = "hook", !.ref = ref] \in Process
        BY <3>1 DEF Process
      <4> QED BY <4>1, <4>2
    <3>3. CASE Book(p)
      <4> DEFINE d == proc[p].ref \in booked
      <4>1. PICK at \in {"next", "close", "failed"} :
               proc' = [proc EXCEPT ![p] = [proc[p] EXCEPT !.at = at, !.dup = d]]
        BY <3>1, <3>3 DEF Book, SjTyped, Process
      <4>2. d \in BOOLEAN
        OBVIOUS
      <4> HIDE DEF d
      <4>3. [proc[p] EXCEPT !.at = at, !.dup = d] \in Process
        BY <3>1, <4>2 DEF Process
      <4> QED BY <4>1, <4>3
    <3>4. CASE Stop(p)
      <4>1. Down \in Process
        BY EmptySeq DEF Down, Process
      <4> QED BY <3>4, <4>1 DEF Stop
    <3> QED BY <1>3, <3>2, <3>3, <3>4
  <2>2. booked' \subseteq PaymentRefs \cup {NoRef} /\ UNCHANGED mjournal
    BY <1>3 DEF SjTyped, Settled, Book, Stop, Process
  <2> HIDE DEF Process
  <2> QED BY <2>1, <2>2 DEF SjTyped
<1>4. ASSUME NEW p \in Servers, Hook(p) \/ Close(p) PROVE SjTyped'
  <2>1. \E r \in Process : proc' = [proc EXCEPT ![p] = r]
    BY <1>4 DEF Hook, Close, SjTyped, Process
  <2>2. mjournal' = mjournal \/ \E e \in Entry : mjournal' = Append(mjournal, e)
    BY <1>4 DEF Hook, Close, Journal, SjTyped, Process, Entry
  <2> QED BY <1>4, <2>1, <2>2 DEF SjTyped, Hook, Close
<1> QED BY <1>0, <1>1, <1>2, <1>3, <1>4 DEF SjNext

LEMMA JournalStep == SjTyped /\ SjInv /\ [SjNext]_mcpvars => SjInv'
<1> SUFFICES ASSUME SjTyped, SjInv, [SjNext]_mcpvars PROVE SjInv'
  OBVIOUS
<1>0. CASE UNCHANGED mcpvars
  BY <1>0 DEF SjInv, mcpvars
<1>1. ASSUME NEW p \in Servers, Start(p) \/ Recover(p) \/ Settled(p) \/ Stop(p) PROVE SjInv'
  <2>1. UNCHANGED <<mjournal, booked>>
    BY <1>1 DEF Start, Recover, Settled, Stop
  <2>2. proc[p] \in Process /\ proc \in [Servers -> Process]
    BY DEF SjTyped
  <2>3. proc'[p].at # "close" /\ \A q \in Servers : q # p => proc'[q] = proc[q]
    <3>1. CASE Start(p)
      BY <2>2, <3>1 DEF Start, Down
    <3>2. CASE Recover(p)
      BY <2>2, <3>2 DEF Recover, Process
    <3>3. CASE Settled(p)
      BY <2>2, <3>3 DEF Settled, Process
    <3>4. CASE Stop(p)
      BY <2>2, <3>4 DEF Stop, Down
    <3> QED BY <1>1, <3>1, <3>2, <3>3, <3>4
  <2> QED BY <2>1, <2>3 DEF SjInv
<1>2. ASSUME NEW p \in Servers, Book(p) PROVE SjInv'
  <2>1. UNCHANGED mjournal /\ booked \subseteq booked'
    BY <1>2 DEF Book
  <2>2. /\ \A q \in Servers : q # p => proc'[q] = proc[q]
        /\ proc'[p].at = "close" => proc'[p].ref \in booked'
    BY <1>2 DEF Book, SjTyped, Process
  <2>3. \A e \in Entry : Known(e, mjournal, booked) => Known(e, mjournal, booked')
    BY <2>1 DEF Known
  <2>4. \A i \in DOMAIN mjournal : mjournal[i] \in Entry
    BY DEF SjTyped
  <2> QED BY <2>1, <2>2, <2>3, <2>4 DEF SjInv
<1>3. ASSUME NEW p \in Servers, Hook(p) \/ Close(p) PROVE SjInv'
  <2>1. UNCHANGED booked /\ \A q \in Servers : q # p => proc'[q] = proc[q]
    BY <1>3 DEF Hook, Close, SjTyped
  <2>2. proc'[p].at # "close"
    BY <1>3 DEF Hook, Close, SjTyped, Process
  <2>3. CASE UNCHANGED mjournal
    BY <2>1, <2>2, <2>3 DEF SjInv
  <2>4. ASSUME NEW e \in Entry, mjournal' = Append(mjournal, e),
               e.event \in {"recorded", "duplicate"} => e.ref \in booked
        PROVE  SjInv'
    <3>1. mjournal \in Seq(Entry)
      BY DEF SjTyped
    <3>2. ASSUME NEW i \in DOMAIN mjournal' PROVE Known(mjournal'[i], mjournal', booked)
      <4>1. CASE i \in DOMAIN mjournal
        <5>1. mjournal'[i] = mjournal[i] /\ mjournal[i] \in Entry
          BY <2>4, <3>1, <4>1
        <5>2. Known(mjournal[i], mjournal, booked)
          BY <4>1 DEF SjInv
        <5>3. ASSUME NEW j \in Pending(mjournal), mjournal[j].ref = mjournal[i].ref,
                     mjournal[i].event = "settled", mjournal[i].ref # NoRef
              PROVE  mjournal[i].ref \in booked \/ \E k \in Pending(mjournal') : mjournal'[k].ref = mjournal[i].ref
          <6>1. CASE e.ref # mjournal[j].ref \/ e.event = "failed"
            <7>1. j \in Pending(mjournal') /\ mjournal'[j] = mjournal[j]
              BY <2>4, <3>1, <6>1, PendingAppend
            <7> QED BY <5>3, <7>1
          <6>2. CASE e.ref = mjournal[j].ref /\ e.event = "settled"
            BY <2>4, <3>1, <5>3, <6>2, PendingAppend
          <6>3. CASE e.ref = mjournal[j].ref /\ e.event \in {"recorded", "duplicate"}
            BY <2>4, <5>3, <6>3
          <6>4. e.event \in {"settled", "recorded", "duplicate", "failed"}
            BY DEF Entry
          <6> QED BY <6>1, <6>2, <6>3, <6>4
        <5> QED BY <5>1, <5>2, <5>3 DEF Known
      <4>2. CASE i = Len(mjournal) + 1
        <5>1. mjournal'[i] = e
          BY <2>4, <3>1, <4>2
        <5> QED BY <2>4, <3>1, <4>2, <5>1, PendingAppend DEF Known
      <4> QED BY <2>4, <3>1, <4>1, <4>2
    <3> QED BY <2>1, <2>2, <3>2 DEF SjInv
  <2>5. \/ UNCHANGED mjournal
        \/ \E e \in Entry : /\ mjournal' = Append(mjournal, e)
                            /\ e.event \in {"recorded", "duplicate"} => e.ref \in booked
    <3>1. proc[p].ref \in PaymentRefs \cup {NoRef}
      BY DEF SjTyped, Process
    <3> QED BY <1>3, <3>1 DEF Hook, Close, Journal, Entry, SjInv
  <2> QED BY <2>3, <2>4, <2>5
<1> QED BY <1>0, <1>1, <1>2, <1>3 DEF SjNext

\* A payment that was journaled with its reference is booked or will be tried again by
\* the next start, and what is recorded has an order: for any number of server
\* processes over one journal, ended between any two steps, and bookings that fail.
THEOREM JournalAlwaysBooked == SjSpec => []JournaledIsBooked
<1>1. SjSpec => [](SjTyped /\ SjInv)
  BY InitJournal, TypedStep, JournalStep, PTL DEF SjSpec
<1>2. SjInv => JournaledIsBooked
  BY DEF SjInv, JournaledIsBooked, Known
<1> QED BY <1>1, <1>2, PTL

(***************************************************************************)
(* The alerts.                                                             *)
(***************************************************************************)
Event == [o : Objectives, status : Statuses]
AlertState == [status : Statuses \cup {"none"}, event : Nat]
Watcher == [at : {"idle", "pick", "read", "event", "state", "ack"},
            seen : [Objectives -> Statuses \cup {"none"}], todo : SUBSET Objectives,
            o : Objectives \cup {"none"}, was : AlertState, event : Nat, queue : SUBSET Nat]

\* A thread that evaluates has the status of every objective, and one of them in hand.
Evaluating(r) ==
    /\ r.at \in {"pick", "read", "event", "state"} => \A o \in Objectives : r.seen[o] \in Statuses
    /\ r.at \in {"read", "event", "state"} => r.o \in Objectives
AlTyped ==
    /\ metrics \in [Objectives -> Statuses]
    /\ events \in Seq(Event)
    /\ inDb \subseteq DOMAIN events
    /\ state \in [Objectives -> AlertState]
    /\ watch \in [Watchers -> Watcher]
    /\ \A w \in Watchers : Evaluating(watch[w])

\* A row that is active points to an event of its objective and status, and so does the
\* one a thread is about to write: the event it wrote or the one of the row it read.
Alerted(o, row, log) ==
    Active(row.status) => row.event \in DOMAIN log /\ log[row.event] = [o |-> o, status |-> row.status]
AlInv ==
    /\ \A o \in Objectives : Alerted(o, state[o], events)
    /\ \A w \in Watchers : watch[w].at = "state" => Alerted(watch[w].o, Row(watch[w]), events)

LEMMA WatchingTyped == Watching \in Watcher /\ Watching.at = "idle"
BY DEF Watching, Watcher, AlertState, NoState, Statuses

LEMMA InitAlerts == AlInit => AlTyped /\ AlInv
<1> SUFFICES ASSUME AlInit PROVE AlTyped /\ AlInv
  OBVIOUS
<1>1. events = <<>> /\ <<>> \in Seq(Event)
  BY EmptySeq DEF AlInit
<1>2. metrics \in [Objectives -> Statuses] /\ state \in [Objectives -> AlertState]
  BY DEF AlInit, Statuses, AlertState, NoState
<1>3. watch \in [Watchers -> Watcher] /\ \A w \in Watchers : watch[w].at = "idle"
  BY WatchingTyped DEF AlInit
<1>4. \A o \in Objectives : ~Active(state[o].status)
  BY DEF AlInit, NoState, Active, ACTIVE_STATUSES
<1>5. inDb = {}
  BY DEF AlInit
<1> QED BY <1>1, <1>2, <1>3, <1>4, <1>5 DEF AlTyped, AlInv, Evaluating, Alerted

\* A thread that goes on leaves the others as they are.
LEMMA Turned ==
    ASSUME AlTyped, NEW w \in Watchers, NEW r \in Watcher, To(w, r), Evaluating(r)
    PROVE  /\ watch' \in [Watchers -> Watcher] /\ watch'[w] = r
           /\ \A u \in Watchers : Evaluating(watch'[u])
           /\ \A u \in Watchers : u # w => watch'[u] = watch[u]
<1>1. watch \in [Watchers -> Watcher] /\ \A u \in Watchers : Evaluating(watch[u])
  BY DEF AlTyped
<1>2. /\ watch' \in [Watchers -> Watcher] /\ watch'[w] = r
      /\ \A u \in Watchers : u # w => watch'[u] = watch[u]
  BY <1>1 DEF To
<1> QED BY <1>1, <1>2

\* What each step leaves in the thread that takes it.
LEMMA Turn ==
    ASSUME AlTyped, AlInv, NEW w \in Watchers,
           Evaluate(w) \/ Pick(w) \/ Read(w) \/ Write(w) \/ Upsert(w) \/ Dispatch(w) \/ Acknowledge(w)
    PROVE  \E r \in Watcher : /\ To(w, r) /\ Evaluating(r)
                              /\ r.at = "state" => Alerted(r.o, Row(r), events')
<1> DEFINE m == watch[w]
           Good(r) == r \in Watcher /\ Evaluating(r) /\ (r.at = "state" => Alerted(r.o, Row(r), events'))
<1> SUFFICES \E r : To(w, r) /\ Good(r)
  OBVIOUS
<1>0. m \in Watcher /\ Evaluating(m) /\ metrics \in [Objectives -> Statuses] /\ Good(Watching)
  BY WatchingTyped DEF AlTyped, Evaluating
<1>1. CASE Evaluate(w)
  <2> DEFINE r == [Watching EXCEPT !.at = "pick", !.seen = metrics, !.todo = Objectives]
  <2>1. Good(r)
    BY <1>0, WatchingTyped DEF Watcher, Evaluating
  <2> HIDE DEF r, Good
  <2> QED BY <1>1, <2>1 DEF Evaluate, r
<1>2. CASE Pick(w)
  <2>1. m.at = "pick" /\ (To(w, Watching) \/ \E o \in m.todo : To(w, [m EXCEPT !.at = "read", !.o = o, !.todo = @ \ {o}]))
    BY <1>2 DEF Pick
  <2>2. ASSUME NEW o \in m.todo PROVE Good([m EXCEPT !.at = "read", !.o = o, !.todo = @ \ {o}])
    BY <1>0, <2>1, <2>2 DEF Watcher, Evaluating
  <2> HIDE DEF Good, m
  <2> QED BY <1>0, <2>1, <2>2
<1>3. CASE Read(w)
  <2>1. m.at = "read" /\ m.o \in Objectives /\ m.seen[m.o] \in Statuses /\ UNCHANGED events
        /\ state[m.o] \in AlertState /\ Alerted(m.o, state[m.o], events)
    BY <1>0, <1>3 DEF Read, Evaluating, AlTyped, AlInv
  <2>2. PICK was \in {state[m.o], NoState} :
           To(w, [m EXCEPT !.was = was, !.event = was.event,
                           !.at = IF Changed(was, m.seen[m.o]) THEN "event" ELSE "state"])
    BY <1>3 DEF Read
  <2>3. was \in AlertState
    BY <2>1 DEF AlertState, NoState
  <2> DEFINE at == IF Changed(was, m.seen[m.o]) THEN "event" ELSE "state"
             r == [m EXCEPT !.was = was, !.event = was.event, !.at = at]
  <2>4. at \in {"event", "state"} /\ (at = "state" => ~Changed(was, m.seen[m.o]))
    OBVIOUS
  <2>5. To(w, r)
    BY <2>2
  <2> HIDE DEF at
  <2>6. r \in Watcher /\ r.at = at /\ r.o = m.o /\ r.seen = m.seen /\ r.event = was.event
    BY <1>0, <2>3, <2>4 DEF Watcher, AlertState
  <2> HIDE DEF r
  <2>7. Evaluating(r)
    BY <1>0, <2>1, <2>4, <2>6 DEF Evaluating
  <2>8. ASSUME at = "state", Active(m.seen[m.o])
        PROVE  was = state[m.o] /\ was.status = m.seen[m.o]
    BY <2>1, <2>2, <2>4, <2>8 DEF Changed, Active, ACTIVE_STATUSES, NoState
  <2>9. r.at = "state" => Alerted(r.o, Row(r), events')
    BY <2>1, <2>6, <2>8 DEF Alerted, Row
  <2> QED BY <2>5, <2>6, <2>7, <2>9
<1>4. CASE Write(w)
  <2> DEFINE e == [o |-> m.o, status |-> m.seen[m.o]]
             r == [m EXCEPT !.event = Len(events'), !.at = "state"]
  <2>1. m.at = "event" /\ m.o \in Objectives /\ m.seen[m.o] \in Statuses /\ events \in Seq(Event)
        /\ events' = Append(events, e) /\ To(w, r)
    BY <1>0, <1>4 DEF Write, Evaluating, AlTyped
  <2>2. e \in Event
    BY <2>1 DEF Event
  <2>3. Len(events') \in Nat /\ Len(events') \in DOMAIN events' /\ events'[Len(events')] = e
    BY <2>1, <2>2
  <2>4. r \in Watcher /\ r.at = "state" /\ r.o = m.o /\ r.seen = m.seen /\ r.event = Len(events')
    BY <1>0, <2>3 DEF Watcher
  <2> HIDE DEF r
  <2>5. Row(r) = [status |-> m.seen[m.o], event |-> Len(events')]
    BY <2>4 DEF Row
  <2>6. Alerted(r.o, Row(r), events')
    BY <2>3, <2>4, <2>5 DEF Alerted
  <2>7. Evaluating(r)
    BY <1>0, <2>1, <2>4 DEF Evaluating
  <2> QED BY <2>1, <2>4, <2>6, <2>7
<1>5. CASE Upsert(w)
  <2> DEFINE r == [m EXCEPT !.at = "pick", !.was = NoState, !.event = 0, !.o = "none"]
  <2>1. m.at = "state" /\ To(w, r)
    BY <1>5 DEF Upsert
  <2>2. r \in Watcher /\ r.at = "pick" /\ r.seen = m.seen
    BY <1>0 DEF Watcher, AlertState, NoState
  <2> HIDE DEF r
  <2> QED BY <1>0, <2>1, <2>2 DEF Evaluating
<1>6. CASE Dispatch(w)
  <2>1. PICK owed : To(w, [Watching EXCEPT !.at = "ack", !.queue = owed]) /\ owed \in SUBSET Nat
    <3>1. \A known, counts : known \subseteq DOMAIN events => Undispatched(known, counts) \subseteq Nat
      BY DEF Undispatched, AlertQueue, Last, AlTyped
    <3>2. inDb \subseteq DOMAIN events
      BY DEF AlTyped
    <3> DEFINE with(owed) == To(w, [Watching EXCEPT !.at = "ack", !.queue = owed])
               count == [e \in DOMAIN acks |-> acks[e].table]
               onFile == [e \in DOMAIN acks |-> acks[e].file]
    <3> SUFFICES \E owed : with(owed) /\ owed \in SUBSET Nat
      OBVIOUS
    <3>3. \/ with(Undispatched(inDb, count)) \/ with(Undispatched(DOMAIN events, count))
          \/ with(Undispatched(inDb, onFile))
          \/ \E e \in Undispatched(inDb, count) : with(Undispatched(inDb, count) \ {e})
      BY <1>6 DEF Dispatch
    <3> HIDE DEF with, count, onFile
    <3> QED BY <3>1, <3>2, <3>3
  <2> DEFINE r == [Watching EXCEPT !.at = "ack", !.queue = owed]
  <2>2. r \in Watcher /\ r.at = "ack"
    BY <2>1, WatchingTyped DEF Watcher
  <2>3. To(w, r)
    BY <2>1
  <2> HIDE DEF r
  <2> QED BY <2>2, <2>3 DEF Evaluating
<1>7. CASE Acknowledge(w)
  <2>1. m.at = "ack" /\ (To(w, Watching) \/ \E e : To(w, [m EXCEPT !.queue = @ \ {e}]))
    BY <1>7 DEF Acknowledge
  <2>2. ASSUME NEW e PROVE Good([m EXCEPT !.queue = @ \ {e}])
    BY <1>0, <2>1 DEF Watcher, Evaluating
  <2> HIDE DEF Good, m
  <2> QED BY <1>0, <2>1, <2>2
<1> QED BY <1>1, <1>2, <1>3, <1>4, <1>5, <1>6, <1>7

\* What each step leaves in the stores.
LEMMA Stores ==
    ASSUME AlTyped, AlInv, AlNext
    PROVE  /\ metrics' \in [Objectives -> Statuses]
           /\ events' = events \/ \E e \in Event : events' = Append(events, e)
           /\ inDb' \subseteq DOMAIN events'
           /\ \/ state' = state
              \/ \E w \in Watchers : /\ watch[w].at = "state" /\ events' = events
                                     /\ state' = [state EXCEPT ![watch[w].o] = Row(watch[w])]
                                     /\ watch[w].o \in Objectives /\ Row(watch[w]) \in AlertState
<1>1. CASE \E o \in Objectives : Shift(o)
  BY <1>1 DEF Shift, AlTyped
<1>2. ASSUME NEW w \in Watchers, Write(w)
      PROVE  /\ \E e \in Event : events' = Append(events, e)
             /\ inDb' \subseteq DOMAIN events' /\ metrics' = metrics /\ state' = state
  <2>1. watch[w].o \in Objectives /\ watch[w].seen[watch[w].o] \in Statuses /\ events \in Seq(Event)
        /\ inDb \subseteq DOMAIN events
    BY <1>2 DEF Write, AlTyped, Evaluating
  <2>2. PICK e \in Event : events' = Append(events, e)
    BY <1>2, <2>1 DEF Write, Event
  <2>3. Len(events') \in DOMAIN events' /\ DOMAIN events \subseteq DOMAIN events'
    BY <2>1, <2>2
  <2> QED BY <1>2, <2>1, <2>2, <2>3 DEF Write
<1>3. ASSUME NEW w \in Watchers, Upsert(w)
      PROVE  /\ events' = events /\ inDb' = inDb /\ metrics' = metrics
             /\ state' = state \/ state' = [state EXCEPT ![watch[w].o] = Row(watch[w])]
             /\ watch[w].o \in Objectives /\ Row(watch[w]) \in AlertState /\ watch[w].at = "state"
  BY <1>3 DEF Upsert, AlTyped, Evaluating, Row, AlertState, Watcher
<1>4. ASSUME NEW w \in Watchers, Evaluate(w) \/ Pick(w) \/ Read(w) \/ Dispatch(w) \/ Acknowledge(w)
      PROVE  UNCHANGED <<metrics, events, inDb, state>>
  BY <1>4 DEF Evaluate, Pick, Read, Dispatch, Acknowledge
<1> QED BY <1>1, <1>2, <1>3, <1>4 DEF AlNext, AlTyped

LEMMA AlertedStays ==
    ASSUME NEW log \in Seq(Event), NEW e \in Event, NEW o, NEW row, Alerted(o, row, log)
    PROVE  Alerted(o, row, Append(log, e))
<1>1. \A i \in DOMAIN log : i \in DOMAIN Append(log, e) /\ Append(log, e)[i] = log[i]
  OBVIOUS
<1> QED BY <1>1 DEF Alerted

LEMMA AlertStep == AlTyped /\ AlInv /\ [AlNext]_alvars => AlTyped' /\ AlInv'
<1>1. AlTyped /\ AlInv /\ UNCHANGED alvars => AlTyped' /\ AlInv'
  BY DEF AlTyped, AlInv, alvars, Alerted, Row, Evaluating
<1>2. ASSUME AlTyped, AlInv, AlNext PROVE AlTyped' /\ AlInv'
  <2>1. events \in Seq(Event) /\ events' \in Seq(Event)
    BY <1>2, Stores DEF AlTyped
  <2>2. \A o, row : Alerted(o, row, events) => Alerted(o, row, events')
    BY <1>2, <2>1, Stores, AlertedStays
  <2>3. /\ watch' \in [Watchers -> Watcher]
        /\ \A u \in Watchers : Evaluating(watch'[u])
        /\ \A u \in Watchers : watch'[u].at = "state" => Alerted(watch'[u].o, Row(watch'[u]), events')
    <3>1. CASE UNCHANGED watch
      BY <1>2, <2>2, <3>1 DEF AlTyped, AlInv
    <3>2. ASSUME NEW w \in Watchers,
                 Evaluate(w) \/ Pick(w) \/ Read(w) \/ Write(w) \/ Upsert(w) \/ Dispatch(w) \/ Acknowledge(w)
          PROVE  /\ watch' \in [Watchers -> Watcher]
                 /\ \A u \in Watchers : Evaluating(watch'[u])
                 /\ \A u \in Watchers : watch'[u].at = "state" => Alerted(watch'[u].o, Row(watch'[u]), events')
      <4>1. PICK r \in Watcher : To(w, r) /\ Evaluating(r) /\ (r.at = "state" => Alerted(r.o, Row(r), events'))
        BY <1>2, <3>2, Turn
      <4> QED BY <1>2, <2>2, <4>1, Turned DEF AlInv
    <3> QED BY <1>2, <3>1, <3>2 DEF AlNext, Shift
  <2>4. state' \in [Objectives -> AlertState] /\ \A o \in Objectives : Alerted(o, state'[o], events')
    <3>1. CASE state' = state
      BY <1>2, <2>2, <3>1 DEF AlTyped, AlInv
    <3>2. ASSUME NEW w \in Watchers, watch[w].at = "state", watch[w].o \in Objectives,
                 Row(watch[w]) \in AlertState, state' = [state EXCEPT ![watch[w].o] = Row(watch[w])]
          PROVE  state' \in [Objectives -> AlertState] /\ \A o \in Objectives : Alerted(o, state'[o], events')
      <4>1. Alerted(watch[w].o, Row(watch[w]), events')
        BY <1>2, <2>2, <3>2 DEF AlInv
      <4>2. state \in [Objectives -> AlertState] /\ \A o \in Objectives : Alerted(o, state[o], events')
        BY <1>2, <2>2 DEF AlTyped, AlInv
      <4> QED BY <3>2, <4>1, <4>2
    <3> QED BY <1>2, <3>1, <3>2, Stores
  <2>5. metrics' \in [Objectives -> Statuses] /\ inDb' \subseteq DOMAIN events'
    BY <1>2, Stores
  <2>6. \A u \in Watchers : Evaluating(watch'[u]) = Evaluating(watch[u])' /\ Row(watch'[u]) = Row(watch[u])'
    BY DEF Evaluating, Row
  <2> QED BY <2>1, <2>3, <2>4, <2>5 DEF AlTyped, AlInv, Evaluating, Row, Alerted
<1> QED BY <1>1, <1>2

\* An objective at fault is queued under an event of its very status, for any number of
\* threads that evaluate and dispatch at once and whatever access of the database fails.
THEOREM AlertsStayQueued == AlSpec => []AlertIsQueued
<1>1. AlSpec => [](AlTyped /\ AlInv)
  BY InitAlerts, AlertStep, PTL DEF AlSpec
<1>2. ASSUME AlTyped, AlInv, NEW o \in Objectives, Active(state[o].status)
      PROVE  LET e == state[o].event
             IN /\ e \in DOMAIN events /\ events[e] = [o |-> o, status |-> state[o].status]
                /\ e \in AlertQueue(inDb) \/ e \notin inDb \/ Cardinality({d \in inDb : d > e}) >= QueueLimit
  <2> DEFINE e == state[o].event  n == Cardinality({d \in inDb : d > e})
  <2>1. e \in DOMAIN events /\ events[e] = [o |-> o, status |-> state[o].status]
    BY <1>2 DEF AlInv, Alerted
  <2>2. n \in Nat
    <3>1. IsFiniteSet(1 .. Len(events)) /\ {d \in inDb : d > e} \subseteq 1 .. Len(events)
      BY <1>2, FS_Interval DEF AlTyped
    <3> QED BY <3>1, FS_Subset, FS_CardinalityType
  <2>3. n >= QueueLimit \/ n < QueueLimit
    BY <2>2, AlertingAssumption
  <2>4. e \in inDb /\ n < QueueLimit => e \in AlertQueue(inDb)
    BY <1>2, <2>1 DEF AlertQueue, Last
  <2> QED BY <2>1, <2>3, <2>4
<1>3. AlTyped /\ AlInv => AlertIsQueued
  BY <1>2 DEF AlertIsQueued
<1> QED BY <1>1, <1>3, PTL

(***************************************************************************)
(* The court.                                                              *)
(***************************************************************************)
\* The steps of each kind of request, and which of them comes right after which.
StepsOf(op, sev) ==
    CASE op = "file" -> {"records", "incident", "save"}
                        \cup (IF SEVERITY_SANCTIONS[sev] \in Sanctions THEN {"sanction"} ELSE {})
      [] op \in {"resolve", "appeal"} -> {"records", "save"}
      [] op = "decide"    -> {"records", "lift", "save"}
      [] op = "remediate" -> {"records", "liftAll", "nominal"}
      [] op = Nothing     -> {"other", "ledger", "sync", "risk", "life"}
CtSteps == LedgerSteps \cup RegistrySteps \cup {"records", "save", "ledger"}
After == {<<"records", "sanction">>, <<"records", "incident">>, <<"records", "lift">>,
          <<"records", "liftAll">>, <<"records", "save">>, <<"sanction", "incident">>,
          <<"incident", "save">>, <<"lift", "save">>, <<"liftAll", "nominal">>, <<"ledger", "sync">>}
CtScript(S) == {q \in Seq(S) : \A i \in 1 .. Len(q) - 1 : <<q[i], q[i + 1]>> \in After}

CtEnd(q) == q[Len(q)]

Rulings == {"upheld", "overturned", "dismissed"}
Risks == {"nominal", "elevated", "critical", "suspended"}
Violation == [status : Live \cup {Nothing, "dismissed", "resolved"}, a : Accused \cup {Nothing},
              applied : Sanctions \cup {Nothing}]
CtAppeal == [status : Rulings \cup {Nothing, "pending"}, v : Nat]
AgentRow == [risk : Risks, count : Nat, life : DOMAIN valid_transitions]
CourtCopy == [v : [VIds -> Violation], p : [AIds -> CtAppeal]]
CtOps == {Nothing, "file", "resolve", "appeal", "decide", "remediate"}
Clerk == [op : CtOps, todo : Seq(CtSteps),
          a : Accused \cup {Nothing}, sev : Int, v : Nat, p : Nat,
          d : Rulings \cup Risks \cup DOMAIN valid_transitions \cup {Nothing},
          x : Sanctions \cup {Nothing}, flags : {{}} \cup [Accused -> SUBSET Sanctions],
          rec : {NoCopy} \cup CourtCopy,
          copy : {NoCopy} \cup [Accused -> SUBSET Sanctions] \cup [Accused -> AgentRow]]

\* What a request that is served alone holds, and what it knows when it comes to a step.
Holds(r) ==
    /\ r.todo \in CtScript(StepsOf(r.op, r.sev))
    /\ r.op = "file" => CtEnd(r.todo) = "save"
    /\ r.op \in {"file", "remediate"} => r.a \in Accused
    /\ r.op \in {"file", "appeal"} => r.v \in VIds
    /\ r.op = "decide" => r.p \in AIds /\ r.d \in Rulings
KnownAt(e, r, vs, as, led) ==
    /\ e \in {"sanction", "incident", "save", "lift"} => r.rec = [v |-> vs, p |-> as]
    /\ r.op = "file" => vs[r.v].status = Nothing
    /\ e \in {"lift", "save"} /\ r.op = "decide" => as[r.p].status = "pending"
    /\ e \in {"liftAll", "nominal"} =>
          \A v \in VIds : vs[v].a = r.a => vs[v].status \notin Live
    /\ e = "nominal" => led[r.a] = {}
    /\ e = "sync" => r.flags \in [Accused -> SUBSET Sanctions]
    /\ e = "risk" => r.a \in Accused /\ r.d \in {"nominal", "suspended"}
    /\ e = "life" => r.a \in Accused /\ r.d \in DOMAIN valid_transitions
StoreAt(e, led, reg) == IF e \in LedgerSteps THEN led ELSE reg
Knows(r, vs, as, led, reg) ==
    r.todo # <<>> =>
        /\ Holds(r) /\ KnownAt(Head(r.todo), r, vs, as, led)
        /\ r.copy # NoCopy => r.copy = StoreAt(Head(r.todo), led, reg)

\* A sanction on record, or about to be.
OnRecord(a, s) == \E v \in VIds : violations[v].a = a /\ violations[v].applied = s
Filing(r, a, s) == /\ r.todo # <<>> /\ r.op = "file" /\ Head(r.todo) \in {"incident", "save"}
                   /\ r.a = a /\ r.x = s
Traced == breaks = 0 => \A a \in Accused : \A s \in ledger[a] :
              OnRecord(a, s) \/ \E t \in Clerks : Filing(clerk[t], a, s)

Kept ==
    /\ violations \in [VIds -> Violation] /\ appeals \in [AIds -> CtAppeal]
    /\ ledger \in [Accused -> SUBSET Sanctions] /\ registry \in [Accused -> AgentRow] /\ breaks \in Nat
    /\ \A v \in VIds : violations[v].status = Nothing => violations[v].applied = Nothing
    /\ \A p \in AIds : appeals[p].status # Nothing => appeals[p].v \in VIds
CtInv ==
    /\ Kept /\ Traced
    /\ clerk \in [Clerks -> Clerk]
    /\ \A t \in Clerks : Knows(clerk[t], violations, appeals, ledger, registry)
OneAtATime == \A t, u \in Clerks : Hearing(t) /\ Hearing(u) => t = u

LEMMA CtTail ==
    ASSUME NEW S, NEW q \in CtScript(S), q # <<>>
    PROVE  /\ Head(q) \in S /\ Tail(q) \in CtScript(S)
           /\ Tail(q) # <<>> => <<Head(q), Head(Tail(q))>> \in After /\ CtEnd(Tail(q)) = CtEnd(q)
           /\ Tail(q) = <<>> => CtEnd(q) = Head(q)
<1> DEFINE p == Tail(q)
<1>1. /\ q \in Seq(S) /\ p \in Seq(S) /\ Len(q) \in Nat /\ Len(q) >= 1
      /\ Len(p) = Len(q) - 1 /\ Head(q) = q[1] /\ Head(q) \in S
      /\ \A i \in 1 .. Len(q) - 1 : p[i] = q[i + 1]
      /\ \A i \in 1 .. Len(q) - 1 : <<q[i], q[i + 1]>> \in After
  <2>1. q \in Seq(S) /\ \A i \in 1 .. Len(q) - 1 : <<q[i], q[i + 1]>> \in After
    BY DEF CtScript
  <2> QED BY <2>1
<1> HIDE DEF p
<1>2. p # <<>> => Head(p) = p[1] /\ Len(q) >= 2
  <2>1. p # <<>> => Len(p) # 0
    BY <1>1, EmptySeq
  <2> QED BY <1>1, <2>1
<1>3. ASSUME p # <<>> PROVE <<Head(q), Head(p)>> \in After /\ CtEnd(p) = CtEnd(q)
  <2>1. 1 \in 1 .. Len(q) - 1 /\ Len(q) - 1 \in 1 .. Len(q) - 1
    BY <1>1, <1>2, <1>3
  <2>2. p[1] = q[1 + 1] /\ <<q[1], q[1 + 1]>> \in After /\ p[Len(q) - 1] = q[Len(q) - 1 + 1]
    BY <1>1, <2>1
  <2> QED BY <1>1, <1>2, <1>3, <2>2 DEF CtEnd
<1>4. p \in CtScript(S)
  <2> SUFFICES ASSUME NEW i \in 1 .. Len(p) - 1 PROVE <<p[i], p[i + 1]>> \in After
    BY <1>1 DEF CtScript
  <2>1. i \in 1 .. Len(q) - 1 /\ i + 1 \in 1 .. Len(q) - 1
    BY <1>1
  <2>2. <<q[i + 1], q[i + 1 + 1]>> \in After /\ p[i] = q[i + 1] /\ p[i + 1] = q[i + 1 + 1]
    BY <1>1, <2>1
  <2> QED BY <2>2
<1>5. p = <<>> => CtEnd(q) = Head(q)
  <2>1. p = <<>> => Len(p) = 0
    BY <1>1, EmptySeq
  <2>2. p = <<>> => Len(q) = 1
    BY <1>1, <2>1
  <2> QED BY <1>1, <2>2 DEF CtEnd
<1> QED BY <1>1, <1>3, <1>4, <1>5 DEF p

\* Which request a step is of.
LEMMA StepOfOp ==
    ASSUME NEW op \in CtOps, NEW sev, NEW e \in StepsOf(op, sev)
    PROVE  /\ e \in CtSteps
           /\ e \in {"sanction", "incident"} => op = "file"
           /\ e = "sanction" => SEVERITY_SANCTIONS[sev] \in Sanctions
           /\ e = "lift" => op = "decide"
           /\ e \in {"liftAll", "nominal"} => op = "remediate"
           /\ e = "save" => op \in {"file", "resolve", "appeal", "decide"}
           /\ e = "records" => op # Nothing
           /\ e \in {"other", "ledger", "sync", "risk", "life"} => op = Nothing
<1>1. CASE op = "file"
  BY <1>1 DEF StepsOf, CtSteps, LedgerSteps, RegistrySteps, Nothing
<1>2. CASE op \in {"resolve", "appeal", "decide", "remediate"}
  BY <1>2 DEF StepsOf, CtSteps, LedgerSteps, RegistrySteps, Nothing
<1>3. CASE op = Nothing
  BY <1>3 DEF StepsOf, CtSteps, LedgerSteps, RegistrySteps, Nothing
<1> QED BY <1>1, <1>2, <1>3 DEF CtOps

\* Which step comes next, by the one that is done.
LEMMA CtNextStep ==
    ASSUME NEW S, NEW q \in CtScript(S), q # <<>>
    PROVE  /\ Head(q) \in {"save", "nominal", "other", "sync", "risk", "life"} => Tail(q) = <<>>
           /\ Tail(q) # <<>> =>
                LET n == Head(Tail(q)) IN
                /\ Head(q) = "records" => n \in {"sanction", "incident", "lift", "liftAll", "save"}
                /\ Head(q) = "sanction" => n = "incident"
                /\ Head(q) \in {"incident", "lift"} => n = "save"
                /\ Head(q) = "liftAll" => n = "nominal"
                /\ Head(q) = "ledger" => n = "sync"
<1>1. Tail(q) # <<>> => <<Head(q), Head(Tail(q))>> \in After
  BY CtTail
<1> QED BY <1>1 DEF After

LEMMA ScriptSteps ==
    ASSUME NEW op \in CtOps, NEW sev, NEW q \in CtScript(StepsOf(op, sev))
    PROVE  q \in Seq(CtSteps)
<1>1. q \in Seq(StepsOf(op, sev))
  BY DEF CtScript
<1>2. \A e \in StepsOf(op, sev) : e \in CtSteps
  BY StepOfOp
<1> HIDE DEF StepsOf
<1>3. Len(q) \in Nat /\ q = [i \in 1 .. Len(q) |-> q[i]] /\ \A i \in 1 .. Len(q) : q[i] \in CtSteps
  BY <1>1, <1>2
<1> QED BY <1>3

LEMMA AtRestTyped ==
    /\ AtRest \in Clerk /\ AtRest.todo = <<>> /\ AtRest.copy = NoCopy
    /\ AtRest.op = Nothing /\ AtRest.sev \in Int
BY DEF AtRest, Clerk, CtOps

\* What a clerk goes on with.
LEMMA CtGoesOn ==
    ASSUME NEW t \in Clerks, NEW r \in Clerk, NEW rest \in Seq(CtSteps),
           clerk \in [Clerks -> Clerk], Proceed(t, r, rest)
    PROVE  /\ clerk' = [clerk EXCEPT ![t] = clerk'[t]]
           /\ clerk'[t] \in Clerk /\ clerk'[t].todo = rest /\ clerk'[t].copy = NoCopy
           /\ rest # <<>> =>
                 /\ clerk'[t].op = r.op /\ clerk'[t].a = r.a /\ clerk'[t].v = r.v /\ clerk'[t].p = r.p
                 /\ clerk'[t].d = r.d /\ clerk'[t].sev = r.sev /\ clerk'[t].x = r.x
                 /\ clerk'[t].rec = r.rec /\ clerk'[t].flags = r.flags
<1> DEFINE n == [r EXCEPT !.todo = rest, !.copy = NoCopy]
<1>1. n \in Clerk /\ n.todo = rest /\ n.copy = NoCopy
      /\ n.op = r.op /\ n.a = r.a /\ n.v = r.v /\ n.p = r.p /\ n.d = r.d /\ n.sev = r.sev /\ n.x = r.x
      /\ n.rec = r.rec /\ n.flags = r.flags
  BY DEF Clerk
<1>2. clerk' = [clerk EXCEPT ![t] = IF rest = <<>> THEN AtRest ELSE n]
  BY DEF Proceed
<1> HIDE DEF n
<1>3. clerk'[t] = IF rest = <<>> THEN AtRest ELSE n
  BY <1>2
<1> QED BY <1>1, <1>2, <1>3, AtRestTyped

CtServed(t) == CtInv /\ OneAtATime /\ OneAtATime' /\ Hearing(t)

\* What a clerk knows when it takes a step.
LEMMA CtAtStep ==
    ASSUME NEW t \in Clerks, CtServed(t)
    PROVE  LET r == clerk[t] q == clerk[t].todo IN
           /\ r \in Clerk /\ r.op \in CtOps /\ q \in CtScript(StepsOf(r.op, r.sev)) /\ q # <<>>
           /\ Head(q) \in StepsOf(r.op, r.sev)
           /\ Tail(q) \in CtScript(StepsOf(r.op, r.sev)) /\ Tail(q) \in Seq(CtSteps)
           /\ Holds(r) /\ KnownAt(Head(q), r, violations, appeals, ledger)
           /\ r.copy # NoCopy => r.copy = StoreAt(Head(q), ledger, registry)
<1> DEFINE r == clerk[t] q == clerk[t].todo
<1>1. r \in Clerk /\ q # <<>> /\ Knows(r, violations, appeals, ledger, registry)
  BY DEF CtServed, CtInv, Hearing
<1>2. r.op \in CtOps
  BY <1>1 DEF Clerk, CtOps
<1>3. Holds(r) /\ KnownAt(Head(q), r, violations, appeals, ledger)
      /\ (r.copy # NoCopy => r.copy = StoreAt(Head(q), ledger, registry))
  BY <1>1 DEF Knows
<1>4. q \in CtScript(StepsOf(r.op, r.sev))
  BY <1>3 DEF Holds
<1>5. Head(q) \in StepsOf(r.op, r.sev) /\ Tail(q) \in CtScript(StepsOf(r.op, r.sev))
  BY <1>1, <1>4, CtTail
<1>6. Tail(q) \in Seq(CtSteps)
  BY <1>2, <1>5, ScriptSteps
<1> QED BY <1>1, <1>2, <1>3, <1>4, <1>5, <1>6

\* The other clerks are at rest before and after.
LEMMA OthersRest ==
    ASSUME NEW t \in Clerks, CtInv, \A u \in Clerks : Hearing(u) => u = t,
           clerk' = [clerk EXCEPT ![t] = clerk'[t]], clerk'[t] \in Clerk, Kept', Traced',
           Knows(clerk'[t], violations', appeals', ledger', registry')
    PROVE  CtInv'
<1>1. clerk' \in [Clerks -> Clerk]
  BY DEF CtInv
<1>2. ASSUME NEW u \in Clerks \ {t}
      PROVE  Knows(clerk'[u], violations', appeals', ledger', registry')
  <2>1. clerk'[u].todo = <<>>
    BY DEF CtInv, Hearing
  <2> QED BY <2>1 DEF Knows
<1> QED BY <1>1, <1>2 DEF CtInv

LEMMA CtOnward ==
    ASSUME NEW t \in Clerks, CtServed(t), NEW r \in Clerk,
           r.op = clerk[t].op, r.sev = clerk[t].sev, r.a = clerk[t].a, r.v = clerk[t].v,
           r.p = clerk[t].p, r.d = clerk[t].d,
           Step(t, r), Kept', Traced',
           Tail(clerk[t].todo) # <<>> =>
               KnownAt(Head(Tail(clerk[t].todo)), r, violations', appeals', ledger')
    PROVE  CtInv'
<1> DEFINE p == Tail(clerk[t].todo) n == clerk'[t]
<1>1. p \in CtScript(StepsOf(r.op, r.sev)) /\ p \in Seq(CtSteps) /\ Holds(clerk[t])
  BY CtAtStep
<1>2. Proceed(t, r, p) /\ clerk \in [Clerks -> Clerk]
  BY DEF Step, CtServed, CtInv
<1> HIDE DEF p
<1>3. /\ clerk' = [clerk EXCEPT ![t] = n] /\ n \in Clerk /\ n.todo = p /\ n.copy = NoCopy
      /\ p # <<>> =>
            /\ n.op = r.op /\ n.a = r.a /\ n.v = r.v /\ n.p = r.p
            /\ n.d = r.d /\ n.sev = r.sev /\ n.x = r.x /\ n.rec = r.rec /\ n.flags = r.flags
  BY <1>1, <1>2, CtGoesOn
<1> HIDE DEF n
<1>4. p # <<>> => Holds(n)
  <2>1. p # <<>> => CtEnd(p) = CtEnd(clerk[t].todo)
    BY CtAtStep, CtTail DEF p
  <2> QED BY <1>1, <1>3, <2>1 DEF Holds
<1>5. p # <<>> => KnownAt(Head(p), r, violations', appeals', ledger')
  BY DEF p
<1>6. p # <<>> => KnownAt(Head(p), n, violations', appeals', ledger')
  BY <1>3, <1>5 DEF KnownAt
<1>7. Knows(n, violations', appeals', ledger', registry')
  BY <1>3, <1>4, <1>6 DEF Knows
<1>8. \A u \in Clerks : Hearing(u) => u = t
  BY DEF CtServed, OneAtATime
<1> QED BY <1>3, <1>7, <1>8, OthersRest DEF CtServed, n

\* A request that goes no further.
LEMMA CtDropped ==
    ASSUME NEW t \in Clerks, CtServed(t), clerk' = [clerk EXCEPT ![t] = AtRest], Kept', Traced'
    PROVE  CtInv'
<1>1. clerk'[t] = AtRest /\ clerk'[t] \in Clerk
  BY AtRestTyped DEF CtServed, CtInv
<1>2. Knows(clerk'[t], violations', appeals', ledger', registry')
  BY <1>1, AtRestTyped DEF Knows
<1>3. \A u \in Clerks : Hearing(u) => u = t
  BY DEF CtServed, OneAtATime
<1> QED BY <1>1, <1>2, <1>3, OthersRest DEF CtServed

LEMMA NothingIsNoSanction == Nothing \notin Sanctions
BY DEF Sanctions, SEVERITY_SANCTIONS, Nothing

\* A step that sets no sanction and loses no record of one.
LEMMA TraceStays ==
    ASSUME NEW t \in Clerks, CtServed(t), clerk' = [clerk EXCEPT ![t] = clerk'[t]], breaks' = breaks,
           \A a \in Accused : ledger'[a] \subseteq ledger[a], Kept',
           \A a \in Accused, s \in Sanctions : OnRecord(a, s) => OnRecord(a, s)',
           \A a \in Accused, s \in Sanctions :
               Filing(clerk[t], a, s) => Filing(clerk'[t], a, s) \/ OnRecord(a, s)'
    PROVE  Traced'
<1> SUFFICES ASSUME breaks' = 0, NEW a \in Accused, NEW s \in ledger'[a]
             PROVE  OnRecord(a, s)' \/ \E u \in Clerks : Filing(clerk'[u], a, s)
  BY DEF Traced
<1>1. s \in ledger[a] /\ s \in Sanctions
  BY DEF Kept
<1>2. OnRecord(a, s) \/ \E u \in Clerks : Filing(clerk[u], a, s)
  BY <1>1 DEF CtServed, CtInv, Traced
<1>3. \A u \in Clerks : Filing(clerk[u], a, s) => u = t
  BY DEF CtServed, OneAtATime, Hearing, Filing
<1> QED BY <1>1, <1>2, <1>3

Recorded == <<violations, appeals, ledger, registry, breaks>>

LEMMA ReadsOnly ==
    ASSUME NEW t \in Clerks, CtServed(t), UNCHANGED Recorded, clerk' = [clerk EXCEPT ![t] = clerk'[t]]
    PROVE  /\ Kept'
           /\ (\A a \in Accused, s \in Sanctions :
                   Filing(clerk[t], a, s) => Filing(clerk'[t], a, s) \/ OnRecord(a, s)') => Traced'
<1>1. Kept'
  BY DEF CtServed, CtInv, Kept, Recorded
<1>2. \A a, s : OnRecord(a, s) => OnRecord(a, s)'
  BY DEF OnRecord, Recorded
<1> QED BY <1>1, <1>2, TraceStays DEF Recorded

LEMMA LoadStoreKeeps == ASSUME NEW t \in Clerks, CtServed(t), LoadStore(t) PROVE CtInv'
<1> DEFINE r == clerk[t] q == clerk[t].todo e == Head(clerk[t].todo)
           n == [clerk[t] EXCEPT !.copy = StoreAt(Head(clerk[t].todo), ledger, registry)]
<1>1. /\ r \in Clerk /\ q # <<>> /\ Holds(r) /\ KnownAt(e, r, violations, appeals, ledger)
  BY CtAtStep
<1>2. StoreAt(e, ledger, registry) \in [Accused -> SUBSET Sanctions] \cup [Accused -> AgentRow]
  BY DEF CtServed, CtInv, Kept, StoreAt
<1>3. n \in Clerk /\ n.copy = StoreAt(e, ledger, registry)
      /\ n.todo = q /\ n.op = r.op /\ n.a = r.a /\ n.v = r.v /\ n.p = r.p /\ n.d = r.d /\ n.sev = r.sev
      /\ n.x = r.x /\ n.rec = r.rec /\ n.flags = r.flags
  BY <1>1, <1>2 DEF Clerk
<1>4. clerk' = [clerk EXCEPT ![t] = n] /\ UNCHANGED Recorded
  BY DEF LoadStore, StoreAt, Recorded
<1> HIDE DEF n
<1>5. clerk'[t] = n
  BY <1>4 DEF CtServed, CtInv
<1>6. Holds(n) /\ KnownAt(e, n, violations', appeals', ledger')
  BY <1>1, <1>3, <1>4 DEF Holds, KnownAt, Recorded
<1>7. Knows(n, violations', appeals', ledger', registry')
  BY <1>3, <1>4, <1>6 DEF Knows, Recorded
<1>8. \A a, s : Filing(r, a, s) => Filing(n, a, s)
  BY <1>3 DEF Filing
<1>9. Kept' /\ Traced'
  BY <1>4, <1>5, <1>8, ReadsOnly
<1>10. \A u \in Clerks : Hearing(u) => u = t
  BY DEF CtServed, OneAtATime
<1> QED BY <1>3, <1>4, <1>5, <1>7, <1>9, <1>10, OthersRest DEF CtServed

LEMMA StepsOnly ==
    ASSUME NEW t \in Clerks, NEW r \in Clerk, CtServed(t), Step(t, r)
    PROVE  /\ clerk' = [clerk EXCEPT ![t] = clerk'[t]] /\ clerk'[t].todo = Tail(clerk[t].todo)
           /\ Tail(clerk[t].todo) # <<>> =>
                 clerk'[t].op = r.op /\ clerk'[t].a = r.a /\ clerk'[t].x = r.x
<1>1. Tail(clerk[t].todo) \in Seq(CtSteps) /\ clerk \in [Clerks -> Clerk]
  BY CtAtStep DEF CtServed, CtInv
<1>2. Proceed(t, r, Tail(clerk[t].todo))
  BY DEF Step
<1> QED BY <1>1, <1>2, CtGoesOn

LEMMA LoadRecordsKeeps == ASSUME NEW t \in Clerks, CtServed(t), LoadRecords(t) PROVE CtInv'
<1> DEFINE r == clerk[t] q == clerk[t].todo p == Tail(clerk[t].todo)
           n == [clerk[t] EXCEPT !.rec = [v |-> violations, p |-> appeals]]
<1>1. /\ r \in Clerk /\ r.op \in CtOps /\ q # <<>> /\ Holds(r) /\ Head(q) = "records" /\ q \in CtScript(StepsOf(r.op, r.sev))
      /\ KnownAt("records", r, violations, appeals, ledger)
  BY CtAtStep DEF LoadRecords, Due
<1>2. UNCHANGED Recorded
  BY DEF LoadRecords, Recorded
<1>3. \A a, s : ~Filing(r, a, s)
  BY <1>1 DEF Filing
<1>4. CASE Refuse(t)
  <2>1. clerk' = [clerk EXCEPT ![t] = AtRest]
    BY <1>4 DEF Refuse, Proceed
  <2>2. clerk' = [clerk EXCEPT ![t] = clerk'[t]]
    BY <2>1 DEF CtServed, CtInv
  <2> QED BY <1>2, <1>3, <2>1, <2>2, ReadsOnly, CtDropped
<1>5. CASE Admitted(r) /\ Step(t, n)
  <2>1. [v |-> violations, p |-> appeals] \in CourtCopy
    BY DEF CtServed, CtInv, Kept, CourtCopy
  <2>2. n \in Clerk /\ n.rec = [v |-> violations, p |-> appeals]
        /\ n.op = r.op /\ n.a = r.a /\ n.v = r.v /\ n.p = r.p /\ n.d = r.d /\ n.sev = r.sev
    BY <1>1, <2>1 DEF Clerk
  <2> HIDE DEF n
  <2>3. clerk' = [clerk EXCEPT ![t] = clerk'[t]]
    BY <1>5, <2>2, StepsOnly
  <2>4. Kept' /\ Traced'
    BY <1>2, <1>3, <2>3, ReadsOnly
  <2>5. ASSUME p # <<>> PROVE KnownAt(Head(p), n, violations', appeals', ledger')
    <3> DEFINE e == Head(p)
    <3>1. e \in {"sanction", "incident", "lift", "liftAll", "save"}
      BY <1>1, <2>5, CtNextStep
    <3>2. p \in CtScript(StepsOf(r.op, r.sev))
      BY CtAtStep
    <3>3. e \in StepsOf(r.op, r.sev)
      BY <2>5, <3>2, CtTail
    <3>4. /\ e = "liftAll" => r.op = "remediate"
      BY <1>1, <3>3, StepOfOp
    <3> HIDE DEF e
    <3>5. r.op = "decide" => appeals[r.p].status = "pending"
      BY <1>5 DEF Admitted, Undecided
    <3>6. r.op = "remediate" => \A v \in VIds : violations[v].a = r.a => violations[v].status \notin Live
      BY <1>5 DEF Admitted, Remediable
    <3>7. r.op = "file" => violations[r.v].status = Nothing
      BY <1>1 DEF KnownAt
    <3>8. violations' = violations /\ appeals' = appeals /\ ledger' = ledger
      BY <1>2 DEF Recorded
    <3>9. KnownAt(e, n, violations, appeals, ledger)
      BY <2>2, <3>1, <3>4, <3>5, <3>6, <3>7 DEF KnownAt
    <3> QED BY <3>8, <3>9 DEF e
  <2> QED BY <1>5, <2>2, <2>4, <2>5, CtOnward
<1> QED BY <1>4, <1>5 DEF LoadRecords

\* At a save the copy of the records is the records, and the request ends.
LEMMA AtSave ==
    ASSUME NEW t \in Clerks, CtServed(t), Due(t, "save")
    PROVE  /\ clerk[t] \in Clerk /\ Holds(clerk[t]) /\ Tail(clerk[t].todo) = <<>>
           /\ clerk[t].rec.v = violations /\ clerk[t].rec.p = appeals
           /\ KnownAt("save", clerk[t], violations, appeals, ledger)
<1>1. KnownAt("save", clerk[t], violations, appeals, ledger)
  BY CtAtStep DEF Due
<1>2. clerk[t].rec = [v |-> violations, p |-> appeals]
  BY <1>1 DEF KnownAt
<1>3. Tail(clerk[t].todo) = <<>>
  BY CtAtStep, CtNextStep DEF Due
<1> QED BY <1>1, <1>2, <1>3, CtAtStep

LEMMA SavedKeeps ==
    ASSUME NEW t \in Clerks, CtServed(t), Due(t, "save"), Step(t, clerk[t]), Kept', breaks' = breaks,
           \A a \in Accused : ledger'[a] \subseteq ledger[a],
           \A a \in Accused, s \in Sanctions : OnRecord(a, s) => OnRecord(a, s)',
           \A a \in Accused, s \in Sanctions : Filing(clerk[t], a, s) => OnRecord(a, s)'
    PROVE  CtInv'
<1>1. Tail(clerk[t].todo) = <<>> /\ clerk[t] \in Clerk
  BY AtSave
<1>2. clerk' = [clerk EXCEPT ![t] = clerk'[t]]
  BY <1>1, StepsOnly
<1>3. Traced'
  BY <1>2, TraceStays
<1> QED BY <1>1, <1>3, CtOnward

LEMMA SaveFiledKeeps == ASSUME NEW t \in Clerks, CtServed(t), SaveFiled(t) PROVE CtInv'
<1> DEFINE r == clerk[t]
<1>1. /\ r \in Clerk /\ Holds(r) /\ r.rec.v = violations /\ r.rec.p = appeals /\ r.op = "file"
      /\ KnownAt("save", r, violations, appeals, ledger)
  BY AtSave DEF SaveFiled
<1>2. r.a \in Accused /\ r.v \in VIds /\ violations[r.v].status = Nothing /\ r.x \in Sanctions \cup {Nothing}
  BY <1>1 DEF Holds, KnownAt, Clerk
<1>3. Filed(r) \in Violation /\ Filed(r).a = r.a /\ Filed(r).applied = r.x /\ Filed(r).status # Nothing
  BY <1>2 DEF Filed, Violation, Live, Nothing
<1> HIDE DEF Filed
<1>4. violations' = [violations EXCEPT ![r.v] = Filed(r)] /\ appeals' = appeals
      /\ ledger' = ledger /\ registry' = registry /\ breaks' = breaks
  BY <1>1 DEF SaveFiled
<1>5. violations \in [VIds -> Violation] /\ violations[r.v].applied = Nothing
  BY <1>2 DEF CtServed, CtInv, Kept
<1>6. Kept'
  BY <1>2, <1>3, <1>4 DEF CtServed, CtInv, Kept
<1>7. ASSUME NEW a \in Accused, NEW s \in Sanctions, OnRecord(a, s) PROVE OnRecord(a, s)'
  <2>1. PICK v \in VIds : violations[v].a = a /\ violations[v].applied = s
    BY <1>7 DEF OnRecord
  <2>2. violations'[v] = violations[v]
    BY <1>4, <1>5, <2>1, NothingIsNoSanction
  <2> QED BY <2>1, <2>2 DEF OnRecord
<1>8. ASSUME NEW a \in Accused, NEW s \in Sanctions, Filing(r, a, s) PROVE OnRecord(a, s)'
  <2>1. violations'[r.v] = Filed(r) /\ r.a = a /\ r.x = s
    BY <1>2, <1>4, <1>5, <1>8 DEF Filing
  <2> QED BY <1>2, <1>3, <2>1 DEF OnRecord
<1> QED BY <1>4, <1>6, <1>7, <1>8, SavedKeeps DEF SaveFiled

\* A save that only turns the status of a violation.
Restated ==
    /\ violations' \in [VIds -> Violation]
    /\ \A w \in VIds : /\ violations'[w].a = violations[w].a /\ violations'[w].applied = violations[w].applied
                       /\ violations'[w].status = Nothing => violations[w].status = Nothing
LEMMA RestatedKeeps ==
    ASSUME NEW t \in Clerks, CtServed(t), Due(t, "save"), Step(t, clerk[t]), clerk[t].op # "file",
           Restated, appeals' \in [AIds -> CtAppeal],
           \A p \in AIds : appeals'[p].status # Nothing => appeals'[p].v \in VIds,
           UNCHANGED <<ledger, registry, breaks>>
    PROVE  CtInv'
<1>3. Kept'
  BY DEF CtServed, CtInv, Kept, Restated
<1>4. \A a, s : OnRecord(a, s) => OnRecord(a, s)'
  BY DEF OnRecord, Restated
<1>5. \A a, s : ~Filing(clerk[t], a, s)
  BY DEF Filing
<1> QED BY <1>3, <1>4, <1>5, SavedKeeps

LEMMA SaveResolvedKeeps == ASSUME NEW t \in Clerks, CtServed(t), SaveResolved(t) PROVE CtInv'
<1>1. violations' = [violations EXCEPT ![clerk[t].v].status = "resolved"] /\ appeals' = appeals
  BY AtSave DEF SaveResolved
<1>2. Restated
  BY <1>1 DEF Restated, CtServed, CtInv, Kept, Violation, Nothing
<1>3. appeals' \in [AIds -> CtAppeal] /\ \A p \in AIds : appeals'[p].status # Nothing => appeals'[p].v \in VIds
  BY <1>1 DEF CtServed, CtInv, Kept
<1>4. /\ Due(t, "save") /\ Step(t, clerk[t]) /\ clerk[t].op # "file" /\ UNCHANGED <<ledger, registry, breaks>>
  BY DEF SaveResolved
<1> QED BY <1>2, <1>3, <1>4, RestatedKeeps

LEMMA SaveAppealKeeps == ASSUME NEW t \in Clerks, CtServed(t), SaveAppeal(t) PROVE CtInv'
<1> DEFINE new == [status |-> "pending", v |-> clerk[t].v]
<1>1. /\ violations' = [violations EXCEPT ![clerk[t].v].status = "appealed"]
      /\ appeals' = [appeals EXCEPT ![clerk[t].p] = new]
  BY AtSave DEF SaveAppeal
<1>2. Restated
  BY <1>1 DEF Restated, CtServed, CtInv, Kept, Violation, Nothing, Live
<1>3. clerk[t].v \in VIds /\ clerk[t] \in Clerk
  BY AtSave DEF SaveAppeal, Holds
<1>4. new \in CtAppeal /\ new.v \in VIds
  BY <1>3 DEF CtAppeal, Clerk
<1> HIDE DEF new
<1>5. appeals' \in [AIds -> CtAppeal] /\ \A p \in AIds : appeals'[p].status # Nothing => appeals'[p].v \in VIds
  BY <1>1, <1>4 DEF CtServed, CtInv, Kept
<1>6. /\ Due(t, "save") /\ Step(t, clerk[t]) /\ clerk[t].op # "file" /\ UNCHANGED <<ledger, registry, breaks>>
  BY DEF SaveAppeal
<1> QED BY <1>2, <1>5, <1>6, RestatedKeeps

LEMMA SaveDecidedKeeps == ASSUME NEW t \in Clerks, CtServed(t), SaveDecided(t) PROVE CtInv'
<1> DEFINE r == clerk[t] v == appeals[r.p].v st == StatusAfter(r.d, violations[v].status)
<1>1. /\ r.p \in AIds /\ r.d \in Rulings /\ appeals[r.p].status = "pending"
      /\ r.rec.v = violations /\ r.rec.p = appeals
  BY AtSave DEF SaveDecided, Holds, KnownAt
<1>2. v \in VIds
  BY <1>1 DEF CtServed, CtInv, Kept, Nothing
<1>3. violations' = [violations EXCEPT ![v].status = st] /\ appeals' = [appeals EXCEPT ![r.p].status = r.d]
  BY <1>1, <1>2 DEF SaveDecided, CtServed, CtInv, Kept
<1>4. appeals' \in [AIds -> CtAppeal] /\ \A p \in AIds : appeals'[p].status # Nothing => appeals'[p].v \in VIds
  <2>1. \A p \in AIds : appeals'[p].v = appeals[p].v /\ (p # r.p => appeals'[p] = appeals[p])
    BY <1>3 DEF CtServed, CtInv, Kept, CtAppeal
  <2> QED BY <1>1, <1>2, <1>3, <2>1 DEF CtServed, CtInv, Kept, CtAppeal
<1>5. /\ Due(t, "save") /\ Step(t, clerk[t]) /\ clerk[t].op # "file" /\ UNCHANGED <<ledger, registry, breaks>>
  BY DEF SaveDecided
<1>6. st \in Live \cup {"dismissed", "resolved"} \/ st = violations[v].status
  <2>1. CASE r.d = "overturned"
    BY <2>1 DEF StatusAfter
  <2>2. CASE r.d = "upheld"
    BY <2>2 DEF StatusAfter, Live
  <2>3. CASE r.d = "dismissed"
    BY <2>3 DEF StatusAfter
  <2> QED BY <1>1, <2>1, <2>2, <2>3 DEF Rulings
<1> HIDE DEF st, v
<1>7. Restated
  BY <1>2, <1>3, <1>6 DEF Restated, CtServed, CtInv, Kept, Violation, Nothing, Live
<1> QED BY <1>4, <1>5, <1>7, RestatedKeeps

(***************************************************************************)
(* The ledger and the registry.                                            *)
(***************************************************************************)
LEMMA AtWrite ==
    ASSUME NEW t \in Clerks, NEW e, CtServed(t), Writing(t, e)
    PROVE  /\ clerk[t] \in Clerk /\ Holds(clerk[t]) /\ Head(clerk[t].todo) = e
           /\ KnownAt(e, clerk[t], violations, appeals, ledger)
           /\ clerk[t].copy = StoreAt(e, ledger, registry)
           /\ e \in StepsOf(clerk[t].op, clerk[t].sev)
BY CtAtStep DEF Writing, Due

\* A step that sets no sanction and leaves the records alone.
LEMMA WriteKeeps ==
    ASSUME NEW t \in Clerks, CtServed(t), NEW r \in Clerk, r.op = clerk[t].op, r.sev = clerk[t].sev,
           r.a = clerk[t].a, r.v = clerk[t].v, r.p = clerk[t].p, r.d = clerk[t].d, r.x = clerk[t].x,
           Step(t, r), Kept', breaks' = breaks, violations' = violations, appeals' = appeals,
           \A a \in Accused : ledger'[a] \subseteq ledger[a],
           Head(clerk[t].todo) # "save",
           Tail(clerk[t].todo) # <<>> =>
               KnownAt(Head(Tail(clerk[t].todo)), r, violations', appeals', ledger')
    PROVE  CtInv'
<1>1. /\ clerk' = [clerk EXCEPT ![t] = clerk'[t]] /\ clerk'[t].todo = Tail(clerk[t].todo)
      /\ Tail(clerk[t].todo) # <<>> =>
            clerk'[t].op = r.op /\ clerk'[t].a = r.a /\ clerk'[t].x = r.x
  BY StepsOnly
<1>2. \A a, s : OnRecord(a, s) => OnRecord(a, s)'
  BY DEF OnRecord
<1>3. ASSUME NEW a \in Accused, NEW s \in Sanctions, Filing(clerk[t], a, s)
      PROVE  Filing(clerk'[t], a, s) \/ OnRecord(a, s)'
  <2>1. Head(clerk[t].todo) = "incident" /\ clerk[t].op = "file" /\ clerk[t].a = a /\ clerk[t].x = s
    BY <1>3 DEF Filing
  <2>2. Tail(clerk[t].todo) # <<>> /\ Head(Tail(clerk[t].todo)) = "save"
    BY <2>1, CtAtStep, CtTail, CtNextStep DEF Holds
  <2> QED BY <1>1, <2>1, <2>2 DEF Filing
<1>4. Traced'
  BY <1>1, <1>2, <1>3, TraceStays
<1> QED BY <1>4, CtOnward

LEMMA SanctionKeeps == ASSUME NEW t \in Clerks, CtServed(t), Sanction(t) PROVE CtInv'
<1> DEFINE r == clerk[t] s == SEVERITY_SANCTIONS[clerk[t].sev] n == [clerk[t] EXCEPT !.x = SEVERITY_SANCTIONS[clerk[t].sev]]
<1>1. /\ r \in Clerk /\ r.op \in CtOps /\ Holds(r) /\ Head(r.todo) = "sanction" /\ r.copy = ledger
      /\ KnownAt("sanction", r, violations, appeals, ledger) /\ "sanction" \in StepsOf(r.op, r.sev)
  BY AtWrite, CtAtStep DEF Sanction, StoreAt, LedgerSteps
<1>2. r.op = "file" /\ s \in Sanctions
  BY <1>1, StepOfOp
<1>3. r.a \in Accused /\ CtEnd(r.todo) = "save"
  BY <1>1, <1>2 DEF Holds
<1>4. Tail(r.todo) # <<>> /\ Head(Tail(r.todo)) = "incident"
  BY <1>1, <1>3, CtAtStep, CtTail, CtNextStep
<1> HIDE DEF s
<1>5. n \in Clerk /\ n.x = s /\ n.op = r.op /\ n.sev = r.sev /\ n.a = r.a /\ n.v = r.v /\ n.p = r.p
      /\ n.d = r.d /\ n.rec = r.rec
  BY <1>1, <1>2 DEF Clerk, s
<1>6. /\ ledger' = [ledger EXCEPT ![r.a] = @ \cup {s}] /\ Step(t, n)
      /\ violations' = violations /\ appeals' = appeals /\ registry' = registry /\ breaks' = breaks
  BY <1>1 DEF Sanction, s
<1> HIDE DEF n
<1>7. ledger' \in [Accused -> SUBSET Sanctions]
  BY <1>2, <1>3, <1>6 DEF CtServed, CtInv, Kept
<1>8. Kept'
  BY <1>6, <1>7 DEF CtServed, CtInv, Kept
<1>9. /\ clerk' = [clerk EXCEPT ![t] = clerk'[t]] /\ clerk'[t].todo = Tail(r.todo)
      /\ clerk'[t].op = "file" /\ clerk'[t].a = r.a /\ clerk'[t].x = s
  BY <1>2, <1>4, <1>5, <1>6, StepsOnly
<1>10. Traced'
  <2> SUFFICES ASSUME breaks' = 0, NEW a \in Accused, NEW e \in ledger'[a]
               PROVE  OnRecord(a, e)' \/ \E u \in Clerks : Filing(clerk'[u], a, e)
    BY DEF Traced
  <2>1. CASE e \in ledger[a]
    <3>1. OnRecord(a, e) \/ \E u \in Clerks : Filing(clerk[u], a, e)
      BY <1>6, <2>1 DEF CtServed, CtInv, Traced
    <3>2. \A u \in Clerks : ~Filing(clerk[u], a, e)
      BY <1>1 DEF CtServed, OneAtATime, Hearing, Filing
    <3> QED BY <1>6, <3>1, <3>2 DEF OnRecord
  <2>2. CASE e \notin ledger[a]
    <3>1. a = r.a /\ e = s
      BY <1>3, <1>6, <2>2 DEF CtServed, CtInv, Kept
    <3>2. Filing(clerk'[t], a, e)
      BY <1>4, <1>9, <3>1 DEF Filing
    <3> QED BY <3>2
  <2> QED BY <2>1, <2>2
<1>11. KnownAt("incident", n, violations', appeals', ledger')
  BY <1>1, <1>5, <1>6 DEF KnownAt
<1> QED BY <1>4, <1>5, <1>6, <1>8, <1>10, <1>11, CtOnward

\* The sanction that an overturned appeal lifts.
Lifted(t) == violations[appeals[clerk[t].p].v]

LEMMA LiftIs ==
    ASSUME NEW t \in Clerks, CtServed(t), Lift(t)
    PROVE  /\ clerk[t].op = "decide" /\ clerk[t].p \in AIds /\ appeals[clerk[t].p].status = "pending"
           /\ appeals[clerk[t].p].v \in VIds /\ Step(t, clerk[t])
           /\ \/ ledger' = [ledger EXCEPT ![Lifted(t).a] = @ \ {Lifted(t).applied}] /\ Lifted(t).applied # Nothing
              \/ ledger' = ledger
           /\ violations' = violations /\ appeals' = appeals /\ registry' = registry /\ breaks' = breaks
<1> DEFINE r == clerk[t]
<1>1. /\ r \in Clerk /\ r.op \in CtOps /\ Holds(r) /\ r.copy = ledger /\ "lift" \in StepsOf(r.op, r.sev)
      /\ KnownAt("lift", r, violations, appeals, ledger)
  BY AtWrite, CtAtStep DEF Lift, StoreAt, LedgerSteps
<1>2. r.op = "decide"
  BY <1>1, StepOfOp
<1>3. r.p \in AIds /\ appeals[r.p].status = "pending" /\ r.rec.v = violations /\ r.rec.p = appeals
  BY <1>1, <1>2 DEF Holds, KnownAt
<1>4. appeals[r.p].v \in VIds
  BY <1>3 DEF CtServed, CtInv, Kept, Nothing
<1> QED BY <1>1, <1>2, <1>3, <1>4 DEF Lift, Lifted

LEMMA LiftKeeps == ASSUME NEW t \in Clerks, CtServed(t), Lift(t) PROVE CtInv'
<1> DEFINE r == clerk[t]
<1>1. /\ r \in Clerk /\ Head(r.todo) = "lift" /\ KnownAt("lift", r, violations, appeals, ledger)
      /\ r.todo \in CtScript(StepsOf(r.op, r.sev)) /\ r.todo # <<>>
  BY AtWrite, CtAtStep DEF Lift
<1>2. ledger \in [Accused -> SUBSET Sanctions]
  BY DEF CtServed, CtInv, Kept
<1>3. ledger' \in [Accused -> SUBSET Sanctions] /\ \A a \in Accused : ledger'[a] \subseteq ledger[a]
  BY <1>2, LiftIs
<1>4. Kept'
  BY <1>3, LiftIs DEF CtServed, CtInv, Kept
<1>5. ASSUME Tail(r.todo) # <<>>
      PROVE  KnownAt(Head(Tail(r.todo)), r, violations', appeals', ledger')
  <2>1. Head(Tail(r.todo)) = "save"
    BY <1>1, <1>5, CtNextStep
  <2> QED BY <1>1, <2>1, LiftIs DEF KnownAt
<1> QED BY <1>1, <1>3, <1>4, <1>5, LiftIs, WriteKeeps

LEMMA LedgerFailsKeeps == ASSUME NEW t \in Clerks, CtServed(t), LedgerFails(t) PROVE CtInv'
<1> DEFINE r == clerk[t]
<1>1. /\ r \in Clerk /\ Head(r.todo) \in {"sanction", "lift"} /\ r.todo # <<>>
      /\ KnownAt(Head(r.todo), r, violations, appeals, ledger) /\ r.todo \in CtScript(StepsOf(r.op, r.sev))
  BY CtAtStep DEF LedgerFails, Due
<1>2. violations' = violations /\ appeals' = appeals /\ ledger' = ledger /\ registry' = registry
      /\ breaks' = breaks + 1 /\ Step(t, r)
  BY DEF LedgerFails
<1>3. Kept' /\ Traced'
  BY <1>2 DEF CtServed, CtInv, Kept, Traced
<1>4. ASSUME Tail(r.todo) # <<>>
      PROVE  KnownAt(Head(Tail(r.todo)), r, violations', appeals', ledger')
  <2>1. Head(Tail(r.todo)) = "incident" \/ (Head(Tail(r.todo)) = "save" /\ Head(r.todo) = "lift")
    BY <1>1, <1>4, CtNextStep
  <2> QED BY <1>1, <1>2, <2>1 DEF KnownAt
<1> QED BY <1>1, <1>2, <1>3, <1>4, CtOnward

LEMMA LiftAllIs ==
    ASSUME NEW t \in Clerks, CtServed(t), LiftAll(t)
    PROVE  /\ clerk[t].a \in Accused /\ ledger' = [ledger EXCEPT ![clerk[t].a] = {}]
           /\ \A v \in VIds : violations[v].a = clerk[t].a => violations[v].status \notin Live
<1> DEFINE r == clerk[t]
<1>1. /\ r \in Clerk /\ r.op \in CtOps /\ Holds(r) /\ r.copy = ledger /\ "liftAll" \in StepsOf(r.op, r.sev)
      /\ KnownAt("liftAll", r, violations, appeals, ledger)
  BY AtWrite, CtAtStep DEF LiftAll, StoreAt, LedgerSteps
<1>2. r.a \in Accused
  BY <1>1, StepOfOp DEF Holds
<1>3. ledger \in [Accused -> SUBSET Sanctions]
  BY DEF CtServed, CtInv, Kept
<1> QED BY <1>1, <1>2, <1>3 DEF LiftAll, KnownAt

LEMMA LiftAllKeeps == ASSUME NEW t \in Clerks, CtServed(t), LiftAll(t) PROVE CtInv'
<1> DEFINE r == clerk[t]
<1>1. /\ r \in Clerk /\ Head(r.todo) = "liftAll" /\ KnownAt("liftAll", r, violations, appeals, ledger)
      /\ r.todo \in CtScript(StepsOf(r.op, r.sev)) /\ r.todo # <<>>
      /\ r.op \in CtOps /\ "liftAll" \in StepsOf(r.op, r.sev)
  BY AtWrite, CtAtStep DEF LiftAll
<1>2. ledger \in [Accused -> SUBSET Sanctions] /\ violations' = violations /\ appeals' = appeals
      /\ registry' = registry /\ breaks' = breaks /\ Step(t, r)
  BY DEF CtServed, CtInv, Kept, LiftAll
<1>3. ledger' \in [Accused -> SUBSET Sanctions] /\ ledger'[r.a] = {} /\ \A a \in Accused : ledger'[a] \subseteq ledger[a]
  BY <1>2, LiftAllIs
<1>4. Kept'
  BY <1>2, <1>3 DEF CtServed, CtInv, Kept
<1>5. ASSUME Tail(r.todo) # <<>>
      PROVE  KnownAt(Head(Tail(r.todo)), r, violations', appeals', ledger')
  <2>1. Head(Tail(r.todo)) = "nominal" /\ r.op = "remediate"
    BY <1>1, <1>5, CtNextStep, StepOfOp
  <2> QED BY <1>1, <1>2, <1>3, <2>1 DEF KnownAt
<1> QED BY <1>1, <1>2, <1>3, <1>4, <1>5, WriteKeeps

\* A step that comes last and at most rewrites the registry.
LEMMA LastWriteKeeps ==
    ASSUME NEW t \in Clerks, CtServed(t), Step(t, clerk[t]), Head(clerk[t].todo) \in {"nominal", "other", "sync", "risk", "life"},
           ledger' = ledger, registry' \in [Accused -> AgentRow], UNCHANGED <<violations, appeals, breaks>>
    PROVE  CtInv'
<1>1. clerk[t] \in Clerk /\ Tail(clerk[t].todo) = <<>>
  BY CtAtStep, CtNextStep
<1>2. Kept'
  BY DEF CtServed, CtInv, Kept
<1> QED BY <1>1, <1>2, WriteKeeps

\* What a step makes of the rows of the registry.
LEMMA RowSet ==
    ASSUME NEW t \in Clerks, NEW e \in RegistrySteps, CtServed(t), Writing(t, e)
    PROVE  /\ clerk[t].copy = registry /\ registry \in [Accused -> AgentRow]
           /\ clerk[t] \in Clerk /\ Head(clerk[t].todo) = e
           /\ clerk[t].op \in CtOps /\ e \in StepsOf(clerk[t].op, clerk[t].sev) /\ Holds(clerk[t])
           /\ KnownAt(e, clerk[t], violations, appeals, ledger)
BY AtWrite, CtAtStep DEF StoreAt, RegistrySteps, LedgerSteps, CtServed, CtInv, Kept

LEMMA OtherWriteKeeps == ASSUME NEW t \in Clerks, CtServed(t), OtherWrite(t) PROVE CtInv' /\ ledger' = ledger
<1>1. clerk[t].copy = ledger /\ Head(clerk[t].todo) = "other"
  BY AtWrite DEF OtherWrite, StoreAt, LedgerSteps
<1>2. ledger' = ledger /\ registry' \in [Accused -> AgentRow]
  BY <1>1 DEF OtherWrite, CtServed, CtInv, Kept
<1> QED BY <1>1, <1>2, LastWriteKeeps DEF OtherWrite

CountsUp == \A a \in Accused : registry'[a].count >= registry[a].count

LEMMA RecordIncidentKeeps ==
    ASSUME NEW t \in Clerks, CtServed(t), RecordIncident(t) PROVE CtInv' /\ CountsUp
<1> DEFINE r == clerk[t] row == registry[clerk[t].a] risk == Risk(row.count + 1, row.risk)
           new == [row EXCEPT !.count = row.count + 1, !.risk = risk]
<1>1. /\ r \in Clerk /\ r.copy = registry /\ Head(r.todo) = "incident" /\ Holds(r) /\ r.op \in CtOps
      /\ KnownAt("incident", r, violations, appeals, ledger) /\ "incident" \in StepsOf(r.op, r.sev)
      /\ registry \in [Accused -> AgentRow]
  BY RowSet DEF RecordIncident, RegistrySteps
<1>2. r.op = "file"
  BY <1>1, StepOfOp
<1>3. row \in AgentRow
  BY <1>1, <1>2 DEF Holds
<1>4. risk \in Risks
  BY <1>3 DEF Risk, Risks, AgentRow
<1> HIDE DEF risk
<1>5. registry' = [registry EXCEPT ![r.a] = new]
  BY <1>1 DEF RecordIncident, risk
<1> HIDE DEF row
<1>6. new \in AgentRow /\ new.count = row.count + 1 /\ row.count \in Nat
  <2>1. row.count \in Nat /\ row.count + 1 \in Nat
    BY <1>3 DEF AgentRow
  <2> QED BY <1>3, <1>4, <2>1 DEF AgentRow
<1> HIDE DEF new
<1>7. registry' \in [Accused -> AgentRow]
  BY <1>1, <1>5, <1>6
<1>8. CountsUp
  BY <1>1, <1>5, <1>6 DEF CountsUp, AgentRow, row
<1>9. /\ ledger' = ledger /\ violations' = violations /\ appeals' = appeals /\ breaks' = breaks /\ Step(t, r)
  BY DEF RecordIncident
<1>10. Kept'
  BY <1>7, <1>9 DEF CtServed, CtInv, Kept
<1>11. ASSUME Tail(r.todo) # <<>>
       PROVE  KnownAt(Head(Tail(r.todo)), r, violations', appeals', ledger')
  <2>1. Head(Tail(r.todo)) = "save"
    BY <1>1, <1>11, CtAtStep, CtNextStep
  <2> QED BY <1>1, <1>2, <1>9, <2>1 DEF KnownAt
<1> QED BY <1>1, <1>8, <1>9, <1>10, <1>11, WriteKeeps

LEMMA NominalKeeps ==
    ASSUME NEW t \in Clerks, CtServed(t), Nominal(t)
    PROVE  /\ CtInv'
           /\ \A a \in Accused : registry'[a].count = registry[a].count \/ a = clerk[t].a
           /\ ledger[clerk[t].a] = {}
           /\ \A v \in VIds : violations[v].a = clerk[t].a => violations[v].status \notin Live
<1> DEFINE r == clerk[t] new == [registry[clerk[t].a] EXCEPT !.risk = "nominal", !.count = 0]
<1>1. /\ r \in Clerk /\ r.copy = registry /\ Head(r.todo) = "nominal" /\ Holds(r) /\ r.op \in CtOps
      /\ KnownAt("nominal", r, violations, appeals, ledger) /\ "nominal" \in StepsOf(r.op, r.sev)
      /\ registry \in [Accused -> AgentRow]
  BY RowSet DEF Nominal, RegistrySteps
<1>2. r.a \in Accused
  BY <1>1, StepOfOp DEF Holds
<1>3. new \in AgentRow
  BY <1>1, <1>2 DEF AgentRow, Risks
<1>4. registry' = [registry EXCEPT ![r.a] = new]
  BY <1>1 DEF Nominal
<1> HIDE DEF new
<1>5. registry' \in [Accused -> AgentRow] /\ \A a \in Accused : registry'[a] = registry[a] \/ a = r.a
  BY <1>1, <1>3, <1>4
<1>6. CtInv'
  BY <1>1, <1>5, LastWriteKeeps DEF Nominal
<1> QED BY <1>1, <1>5, <1>6 DEF KnownAt

LEMMA ReadLedgerKeeps == ASSUME NEW t \in Clerks, CtServed(t), ReadLedger(t) PROVE CtInv'
<1> DEFINE r == clerk[t] f == [a \in Accused |-> ledger[a]] n == [clerk[t] EXCEPT !.flags = [a \in Accused |-> ledger[a]]]
<1>1. r \in Clerk /\ r.op \in CtOps /\ Head(r.todo) = "ledger" /\ "ledger" \in StepsOf(r.op, r.sev)
      /\ r.todo \in CtScript(StepsOf(r.op, r.sev)) /\ r.todo # <<>>
  BY CtAtStep DEF ReadLedger, Due
<1>2. r.op = Nothing
  BY <1>1, StepOfOp
<1>3. f \in [Accused -> SUBSET Sanctions]
  BY DEF CtServed, CtInv, Kept
<1>4. n \in Clerk /\ n.flags = f /\ n.op = r.op /\ n.sev = r.sev /\ n.a = r.a /\ n.v = r.v /\ n.p = r.p
      /\ n.d = r.d /\ n.x = r.x
  BY <1>1, <1>3 DEF Clerk
<1>5. /\ Step(t, n) /\ violations' = violations /\ appeals' = appeals /\ ledger' = ledger
      /\ registry' = registry /\ breaks' = breaks
  BY DEF ReadLedger
<1> HIDE DEF n, f
<1>6. Kept'
  BY <1>5 DEF CtServed, CtInv, Kept
<1>7. ASSUME Tail(r.todo) # <<>>
      PROVE  KnownAt(Head(Tail(r.todo)), n, violations', appeals', ledger')
  <2>1. Head(Tail(r.todo)) = "sync"
    BY <1>1, <1>7, CtNextStep
  <2> QED BY <1>2, <1>3, <1>4, <2>1 DEF KnownAt, Nothing
<1> QED BY <1>1, <1>4, <1>5, <1>6, <1>7, WriteKeeps

SameCounts == \A a \in Accused : registry'[a].count = registry[a].count

LEMMA SyncKeeps == ASSUME NEW t \in Clerks, CtServed(t), Sync(t) PROVE CtInv' /\ SameCounts
<1> DEFINE f(a) == RiskOf(clerk[t].flags[a])
<1>1. /\ clerk[t].copy = registry /\ registry \in [Accused -> AgentRow] /\ Head(clerk[t].todo) = "sync"
  BY RowSet DEF Sync, RegistrySteps
<1>2. \A a \in Accused : f(a) \in Risks
  BY DEF RiskOf, Risks
<1> HIDE DEF f
<1>3. registry' = [a \in Accused |-> [registry[a] EXCEPT !.risk = f(a)]]
  BY <1>1 DEF Sync, f
<1>4. registry' \in [Accused -> AgentRow] /\ SameCounts
  BY <1>1, <1>2, <1>3 DEF AgentRow, SameCounts
<1> QED BY <1>1, <1>4, LastWriteKeeps DEF Sync

LEMMA SetRiskKeeps == ASSUME NEW t \in Clerks, CtServed(t), SetRisk(t) PROVE CtInv' /\ SameCounts
<1>1. /\ clerk[t].copy = registry /\ registry \in [Accused -> AgentRow] /\ Head(clerk[t].todo) = "risk"
      /\ clerk[t].a \in Accused /\ clerk[t].d \in {"nominal", "suspended"}
  BY RowSet DEF SetRisk, RegistrySteps, KnownAt
<1>2. registry' = [registry EXCEPT ![clerk[t].a].risk = clerk[t].d]
  BY <1>1 DEF SetRisk
<1>3. registry' \in [Accused -> AgentRow] /\ SameCounts
  BY <1>1, <1>2 DEF AgentRow, SameCounts, Risks
<1> QED BY <1>1, <1>3, LastWriteKeeps DEF SetRisk

LEMMA TransitionLifecycleKeeps ==
    ASSUME NEW t \in Clerks, CtServed(t), TransitionLifecycle(t) PROVE CtInv' /\ SameCounts
<1>1. /\ clerk[t].copy = registry /\ registry \in [Accused -> AgentRow] /\ Head(clerk[t].todo) = "life"
      /\ clerk[t].a \in Accused /\ clerk[t].d \in DOMAIN valid_transitions /\ clerk[t] \in Clerk
  BY RowSet DEF TransitionLifecycle, RegistrySteps, KnownAt
<1>2. violations' = violations /\ appeals' = appeals /\ ledger' = ledger /\ breaks' = breaks
  BY DEF TransitionLifecycle
<1>3. CASE registry' = [registry EXCEPT ![clerk[t].a].life = clerk[t].d] /\ Step(t, clerk[t])
  <2>1. registry' \in [Accused -> AgentRow] /\ SameCounts
    BY <1>1, <1>3 DEF AgentRow, SameCounts
  <2> QED BY <1>1, <1>2, <1>3, <2>1, LastWriteKeeps
<1>4. CASE Refuse(t) /\ registry' = registry
  <2>1. clerk' = [clerk EXCEPT ![t] = AtRest]
    BY <1>4 DEF Refuse, Proceed
  <2>2. clerk' = [clerk EXCEPT ![t] = clerk'[t]] /\ \A a, s : ~Filing(clerk[t], a, s)
    BY <1>1, <2>1 DEF CtServed, CtInv, Filing
  <2>3. Kept' /\ Traced'
    BY <1>2, <1>4, <2>2, ReadsOnly DEF Recorded
  <2> QED BY <1>4, <2>1, <2>3, CtDropped DEF SameCounts
<1> QED BY <1>1, <1>3, <1>4 DEF TransitionLifecycle

(***************************************************************************)
(* Requests.                                                               *)
(***************************************************************************)
CtBegin(q, S, e) == q \in CtScript(S) /\ q \in Seq(CtSteps) /\ q # <<>> /\ Head(q) = e

LEMMA CtScripts ==
    ASSUME NEW S \in SUBSET CtSteps
    PROVE  /\ {"records", "sanction", "incident", "save"} \subseteq S =>
                 LET q == <<"records", "sanction", "incident", "save">> IN CtBegin(q, S, "records") /\ CtEnd(q) = "save"
           /\ {"records", "incident", "save"} \subseteq S =>
                 LET q == <<"records", "incident", "save">> IN CtBegin(q, S, "records") /\ CtEnd(q) = "save"
           /\ {"records", "save"} \subseteq S => CtBegin(<<"records", "save">>, S, "records")
           /\ {"records", "lift", "save"} \subseteq S => CtBegin(<<"records", "lift", "save">>, S, "records")
           /\ {"records", "liftAll", "nominal"} \subseteq S =>
                 CtBegin(<<"records", "liftAll", "nominal">>, S, "records")
           /\ {"ledger", "sync"} \subseteq S => CtBegin(<<"ledger", "sync">>, S, "ledger")
           /\ "other" \in S => CtBegin(<<"other">>, S, "other")
           /\ "risk" \in S => CtBegin(<<"risk">>, S, "risk")
           /\ "life" \in S => CtBegin(<<"life">>, S, "life")
BY DEF CtBegin, CtScript, CtEnd, After, CtSteps, LedgerSteps, RegistrySteps

\* A request that begins while nobody else is served.
LEMMA CtBegins ==
    ASSUME NEW t \in Clerks, CtInv, OneAtATime', NEW r \in Clerk, r.copy = NoCopy,
           NEW q \in Seq(CtSteps), q # <<>>, Begin(t, r, q), UNCHANGED Recorded,
           q \in CtScript(StepsOf(r.op, r.sev)),
           r.op = "file" => CtEnd(q) = "save" /\ r.v \in VIds /\ violations[r.v].status = Nothing,
           r.op \in {"file", "remediate"} => r.a \in Accused, r.op = "appeal" => r.v \in VIds,
           r.op = "decide" => r.p \in AIds /\ r.d \in Rulings,
           Head(q) \in {"records", "other", "ledger", "risk", "life"},
           Head(q) = "risk" => r.a \in Accused /\ r.d \in {"nominal", "suspended"},
           Head(q) = "life" => r.a \in Accused /\ r.d \in DOMAIN valid_transitions
    PROVE  CtInv'
<1> DEFINE n == [r EXCEPT !.todo = q]
<1>1. n \in Clerk /\ n.todo = q /\ n.copy = NoCopy
      /\ n.op = r.op /\ n.a = r.a /\ n.v = r.v /\ n.p = r.p /\ n.d = r.d /\ n.sev = r.sev
  BY DEF Clerk
<1>2. clerk' = [clerk EXCEPT ![t] = n] /\ ~Hearing(t)
  BY DEF Begin
<1> HIDE DEF n
<1>3. clerk'[t] = n /\ \A u \in Clerks \ {t} : clerk'[u] = clerk[u]
  BY <1>2 DEF CtInv
<1>4. \A u \in Clerks : ~Hearing(u)
  BY <1>1, <1>2, <1>3 DEF OneAtATime, Hearing
<1>5. Holds(n)
  BY <1>1 DEF Holds
<1>6. KnownAt(Head(q), n, violations, appeals, ledger)
  BY <1>1 DEF KnownAt
<1>7. Knows(n, violations', appeals', ledger', registry')
  BY <1>1, <1>5, <1>6 DEF Knows, Recorded
<1>8. Kept'
  BY DEF CtInv, Kept, Recorded
<1>9. Traced'
  <2>1. \A u \in Clerks : \A a, s : ~Filing(clerk[u], a, s)
    BY <1>4 DEF Filing, Hearing
  <2> QED BY <2>1 DEF CtInv, Traced, OnRecord, Recorded
<1> QED BY <1>1, <1>2, <1>3, <1>4, <1>7, <1>8, <1>9, OthersRest

LEMMA FileBegins ==
    ASSUME NEW t \in Clerks, NEW a \in Accused, NEW sev \in Severities, CtInv, OneAtATime', UNCHANGED Recorded,
           File(t, a, sev)
    PROVE  CtInv'
<1> DEFINE S == StepsOf("file", sev)
           q == IF SEVERITY_SANCTIONS[sev] = Nothing THEN <<"records", "incident", "save">>
                ELSE <<"records", "sanction", "incident", "save">>
<1>1. PICK v \in FreshV : Begin(t, [AtRest EXCEPT !.op = "file", !.a = a, !.sev = sev, !.v = v], q)
  BY DEF File
<1> DEFINE r == [AtRest EXCEPT !.op = "file", !.a = a, !.sev = sev, !.v = v]
<1>2. sev \in 1 .. 6
  BY CourtAssumption
<1>3. v \in VIds /\ violations[v].status = Nothing
  BY DEF FreshV, Fresh, CtInv, Kept
<1>4. r \in Clerk /\ r.op = "file" /\ r.a = a /\ r.sev = sev /\ r.v = v /\ r.copy = NoCopy
  <2>1. sev \in Int /\ v \in Nat
    BY <1>2, <1>3 DEF VIds
  <2> QED BY <2>1, AtRestTyped DEF Clerk, AtRest, CtOps
<1>5. SEVERITY_SANCTIONS[sev] = Nothing \/ SEVERITY_SANCTIONS[sev] \in Sanctions
  BY <1>2 DEF Sanctions, SEVERITY_SANCTIONS
<1>6. S \in SUBSET CtSteps /\ {"records", "incident", "save"} \subseteq S
      /\ (SEVERITY_SANCTIONS[sev] \in Sanctions => "sanction" \in S)
  BY DEF StepsOf, CtSteps, LedgerSteps, RegistrySteps, Nothing
<1> HIDE DEF S
<1>7. CtBegin(q, S, "records") /\ CtEnd(q) = "save"
  <2>1. CASE SEVERITY_SANCTIONS[sev] = Nothing
    <3>1. q = <<"records", "incident", "save">>
      BY <2>1
    <3> HIDE DEF q
    <3> QED BY <1>6, <3>1, CtScripts
  <2>2. CASE SEVERITY_SANCTIONS[sev] # Nothing
    <3>1. q = <<"records", "sanction", "incident", "save">>
      BY <2>2
    <3>2. {"records", "sanction", "incident", "save"} \subseteq S
      BY <1>5, <1>6, <2>2
    <3> HIDE DEF q
    <3> QED BY <1>6, <3>1, <3>2, CtScripts
  <2> QED BY <2>1, <2>2
<1> HIDE DEF q, r
<1>8. Begin(t, r, q)
  BY <1>1 DEF r
<1>9. q \in Seq(CtSteps) /\ q # <<>> /\ Head(q) = "records" /\ q \in CtScript(StepsOf(r.op, r.sev))
  BY <1>4, <1>7 DEF CtBegin, S
<1> QED BY <1>3, <1>4, <1>7, <1>8, <1>9, CtBegins

LEMMA CourtRequestBegins ==
    ASSUME NEW t \in Clerks, CtInv, OneAtATime', CourtRequest(t)
    PROVE  CtInv'
<1>0. UNCHANGED Recorded
  BY DEF CourtRequest, Recorded
<1>1. ASSUME NEW a \in Accused, Remediate(t, a) PROVE CtInv'
  <2> DEFINE r == [AtRest EXCEPT !.op = "remediate", !.a = a] q == <<"records", "liftAll", "nominal">>
             S == StepsOf("remediate", r.sev)
  <2>1. r \in Clerk /\ r.op = "remediate" /\ r.a = a /\ r.copy = NoCopy
    BY AtRestTyped DEF Clerk, AtRest, CtOps
  <2>2. S \in SUBSET CtSteps /\ {"records", "liftAll", "nominal"} \subseteq S
    BY DEF StepsOf, CtSteps, LedgerSteps, RegistrySteps, Nothing
  <2>3. Begin(t, r, q)
    BY <1>1 DEF Remediate, RemediateSteps
  <2> HIDE DEF S, r
  <2>4. CtBegin(q, S, "records")
    BY <2>2, CtScripts
  <2> HIDE DEF q
  <2>5. q \in Seq(CtSteps) /\ q # <<>> /\ Head(q) = "records" /\ q \in CtScript(StepsOf(r.op, r.sev))
    BY <2>1, <2>4 DEF CtBegin, S
  <2> QED BY <1>0, <2>1, <2>3, <2>5, CtBegins
<1>2. ASSUME NEW v \in VIds, Resolve(t, v) PROVE CtInv'
  <2> DEFINE r == [AtRest EXCEPT !.op = "resolve", !.v = v] q == <<"records", "save">> S == StepsOf("resolve", r.sev)
  <2>1. r \in Clerk /\ r.op = "resolve" /\ r.copy = NoCopy
    <3>1. v \in Nat
      BY DEF VIds
    <3> QED BY <3>1, AtRestTyped DEF Clerk, AtRest, CtOps
  <2>2. S \in SUBSET CtSteps /\ {"records", "save"} \subseteq S
    BY DEF StepsOf, CtSteps, LedgerSteps, RegistrySteps, Nothing
  <2>3. Begin(t, r, q)
    BY <1>2 DEF Resolve
  <2> HIDE DEF S, r
  <2>4. CtBegin(q, S, "records")
    BY <2>2, CtScripts
  <2> HIDE DEF q
  <2>5. q \in Seq(CtSteps) /\ q # <<>> /\ Head(q) = "records" /\ q \in CtScript(StepsOf(r.op, r.sev))
    BY <2>1, <2>4 DEF CtBegin, S
  <2> QED BY <1>0, <2>1, <2>3, <2>5, CtBegins
<1>3. ASSUME NEW v \in VIds, Appeal(t, v) PROVE CtInv'
  <2>1. PICK p \in FreshA : Begin(t, [AtRest EXCEPT !.op = "appeal", !.v = v, !.p = p], <<"records", "save">>)
    BY <1>3 DEF Appeal
  <2> DEFINE r == [AtRest EXCEPT !.op = "appeal", !.v = v, !.p = p] q == <<"records", "save">>
             S == StepsOf("appeal", r.sev)
  <2>2. p \in AIds
    BY DEF FreshA, Fresh, CtInv, Kept
  <2>3. r \in Clerk /\ r.op = "appeal" /\ r.v = v /\ r.copy = NoCopy
    <3>1. v \in Nat /\ p \in Nat
      BY <2>2 DEF VIds, AIds
    <3> QED BY <3>1, AtRestTyped DEF Clerk, AtRest, CtOps
  <2>4. S \in SUBSET CtSteps /\ {"records", "save"} \subseteq S
    BY DEF StepsOf, CtSteps, LedgerSteps, RegistrySteps, Nothing
  <2>5. Begin(t, r, q)
    BY <2>1
  <2> HIDE DEF S, r
  <2>6. CtBegin(q, S, "records")
    BY <2>4, CtScripts
  <2> HIDE DEF q
  <2>7. q \in Seq(CtSteps) /\ q # <<>> /\ Head(q) = "records" /\ q \in CtScript(StepsOf(r.op, r.sev))
    BY <2>3, <2>6 DEF CtBegin, S
  <2> QED BY <1>0, <2>3, <2>5, <2>7, CtBegins
<1>4. ASSUME NEW p \in AIds, NEW d \in Rulings, Decide(t, p, d) PROVE CtInv'
  <2> DEFINE r == [AtRest EXCEPT !.op = "decide", !.p = p, !.d = d]
             q == IF d = "overturned" THEN <<"records", "lift", "save">> ELSE <<"records", "save">>
             S == StepsOf("decide", r.sev)
  <2>1. r \in Clerk /\ r.op = "decide" /\ r.p = p /\ r.d = d /\ r.copy = NoCopy
    <3>1. p \in Nat
      BY DEF AIds
    <3> QED BY <3>1, AtRestTyped DEF Clerk, AtRest, CtOps
  <2>2. S \in SUBSET CtSteps /\ {"records", "lift", "save"} \subseteq S
    BY DEF StepsOf, CtSteps, LedgerSteps, RegistrySteps, Nothing
  <2>3. Begin(t, r, q)
    BY <1>4 DEF Decide
  <2> HIDE DEF S, r
  <2>4. CtBegin(<<"records", "save">>, S, "records") /\ CtBegin(<<"records", "lift", "save">>, S, "records")
    BY <2>2, CtScripts
  <2>5. CtBegin(q, S, "records")
    BY <2>4
  <2> HIDE DEF q
  <2>6. q \in Seq(CtSteps) /\ q # <<>> /\ Head(q) = "records" /\ q \in CtScript(StepsOf(r.op, r.sev))
    BY <2>1, <2>5 DEF CtBegin, S
  <2> QED BY <1>0, <2>1, <2>3, <2>6, CtBegins
<1>5. DOMAIN violations = VIds /\ DOMAIN appeals = AIds
  BY DEF CtInv, Kept
<1> QED BY <1>0, <1>1, <1>2, <1>3, <1>4, <1>5, FileBegins DEF CourtRequest, Fresh, Rulings

LEMMA OtherRequestBegins ==
    ASSUME NEW t \in Clerks, CtInv, OneAtATime', OtherRequest(t)
    PROVE  CtInv'
<1> DEFINE S == StepsOf(Nothing, 0)
<1>0. UNCHANGED Recorded
  BY DEF OtherRequest, Recorded
<1>1. S \in SUBSET CtSteps /\ {"other", "ledger", "sync", "risk", "life"} \subseteq S
  BY DEF StepsOf, CtSteps, LedgerSteps, RegistrySteps, Nothing
<1>2. AtRest \in Clerk /\ AtRest.copy = NoCopy /\ AtRest.op = Nothing /\ AtRest.sev = 0
  BY AtRestTyped DEF AtRest
<1> HIDE DEF S
<1>3. CtBegin(<<"other">>, S, "other") /\ CtBegin(<<"ledger", "sync">>, S, "ledger")
      /\ CtBegin(<<"risk">>, S, "risk") /\ CtBegin(<<"life">>, S, "life")
  BY <1>1, CtScripts
<1>4. ASSUME NEW r \in Clerk, r.copy = NoCopy, r.op = Nothing, r.sev = 0, NEW q, NEW e, CtBegin(q, S, e),
             Begin(t, r, q), e \in {"other", "ledger", "risk", "life"},
             e = "risk" => r.a \in Accused /\ r.d \in {"nominal", "suspended"},
             e = "life" => r.a \in Accused /\ r.d \in DOMAIN valid_transitions
      PROVE  CtInv'
  <2>1. q \in Seq(CtSteps) /\ q # <<>> /\ Head(q) = e /\ q \in CtScript(StepsOf(r.op, r.sev))
    BY <1>4 DEF CtBegin, S
  <2>2. r.op \notin {"file", "remediate", "appeal", "decide"}
    BY <1>4 DEF Nothing
  <2> QED BY <1>0, <1>4, <2>1, <2>2, CtBegins
<1>5. CASE Begin(t, AtRest, <<"other">>)
  BY <1>2, <1>3, <1>4, <1>5
<1>6. CASE Begin(t, AtRest, <<"ledger", "sync">>)
  BY <1>2, <1>3, <1>4, <1>6
<1>7. ASSUME NEW a \in Accused, NEW d \in {"nominal", "suspended"},
             Begin(t, [AtRest EXCEPT !.a = a, !.d = d], <<"risk">>)
      PROVE  CtInv'
  <2> DEFINE r == [AtRest EXCEPT !.a = a, !.d = d]
  <2>1. r \in Clerk /\ r.a = a /\ r.d = d /\ r.copy = NoCopy /\ r.op = Nothing /\ r.sev = 0
    BY <1>2 DEF Clerk, AtRest, Risks, CtOps
  <2>2. Begin(t, r, <<"risk">>)
    BY <1>7
  <2> HIDE DEF r
  <2> QED BY <1>3, <1>4, <2>1, <2>2
<1>8. ASSUME NEW a \in Accused, NEW d \in DOMAIN valid_transitions,
             Begin(t, [AtRest EXCEPT !.a = a, !.d = d], <<"life">>)
      PROVE  CtInv'
  <2> DEFINE r == [AtRest EXCEPT !.a = a, !.d = d]
  <2>1. r \in Clerk /\ r.a = a /\ r.d = d /\ r.copy = NoCopy /\ r.op = Nothing /\ r.sev = 0
    BY <1>2 DEF Clerk, AtRest, CtOps
  <2>2. Begin(t, r, <<"life">>)
    BY <1>8
  <2> HIDE DEF r
  <2> QED BY <1>3, <1>4, <2>1, <2>2
<1> QED BY <1>5, <1>6, <1>7, <1>8 DEF OtherRequest

LEMMA CtBreakKeeps == ASSUME NEW t \in Clerks, CtServed(t), Break(t) PROVE CtInv'
<1>1. clerk' = [clerk EXCEPT ![t] = AtRest] /\ breaks' = breaks + 1
      /\ UNCHANGED <<violations, appeals, ledger, registry>>
  BY DEF Break
<1>2. Kept' /\ Traced'
  BY <1>1 DEF CtServed, CtInv, Kept, Traced
<1> QED BY <1>1, <1>2, CtDropped

CtStores == /\ \A a \in Accused : ledger[a] \subseteq ledger'[a]
            /\ CountsUp
\* What a handler does to the ledger and to the counts.
LEMMA CtHandles ==
    ASSUME NEW t \in Clerks, CtServed(t), Handle(t)
    PROVE  CtInv' /\ (CtStores \/ Lift(t) \/ LiftAll(t) \/ Nominal(t))
<1>1. Hearing(t)
  BY DEF CtServed
<1>2. /\ \A a \in Accused : registry[a].count >= registry[a].count
      /\ SameCounts => CountsUp
      /\ registry' = registry => CountsUp
  <2>1. \A a \in Accused : registry[a].count \in Nat
    BY DEF CtServed, CtInv, Kept, AgentRow
  <2> QED BY <2>1 DEF SameCounts, CountsUp
<1>3. CASE LoadStore(t)
  BY <1>2, <1>3, LoadStoreKeeps DEF LoadStore, CtStores
<1>4. CASE LoadRecords(t)
  BY <1>2, <1>4, LoadRecordsKeeps DEF LoadRecords, CtStores
<1>5. CASE SaveFiled(t)
  BY <1>2, <1>5, SaveFiledKeeps DEF SaveFiled, CtStores
<1>6. CASE SaveResolved(t)
  BY <1>2, <1>6, SaveResolvedKeeps DEF SaveResolved, CtStores
<1>7. CASE SaveAppeal(t)
  BY <1>2, <1>7, SaveAppealKeeps DEF SaveAppeal, CtStores
<1>8. CASE SaveDecided(t)
  BY <1>2, <1>8, SaveDecidedKeeps DEF SaveDecided, CtStores
<1>9. CASE Sanction(t)
  <2>1. clerk[t].copy = ledger
    BY <1>9, AtWrite DEF Sanction, StoreAt, LedgerSteps
  <2>2. ledger' = [ledger EXCEPT ![clerk[t].a] = @ \cup {SEVERITY_SANCTIONS[clerk[t].sev]}] /\ registry' = registry
    BY <1>9, <2>1 DEF Sanction
  <2>3. \A a \in Accused : ledger[a] \subseteq ledger'[a]
    BY <2>2 DEF CtServed, CtInv, Kept
  <2> QED BY <1>2, <1>9, <2>2, <2>3, SanctionKeeps DEF CtStores
<1>10. CASE Lift(t)
  BY <1>10, LiftKeeps
<1>11. CASE LedgerFails(t)
  BY <1>2, <1>11, LedgerFailsKeeps DEF LedgerFails, CtStores
<1>12. CASE LiftAll(t)
  BY <1>12, LiftAllKeeps
<1>13. CASE OtherWrite(t)
  BY <1>2, <1>13, OtherWriteKeeps DEF OtherWrite, CtStores
<1>14. CASE RecordIncident(t)
  BY <1>14, RecordIncidentKeeps DEF RecordIncident, CtStores
<1>15. CASE Nominal(t)
  BY <1>15, NominalKeeps
<1>16. CASE ReadLedger(t)
  BY <1>2, <1>16, ReadLedgerKeeps DEF ReadLedger, CtStores
<1>17. CASE Sync(t)
  BY <1>2, <1>17, SyncKeeps DEF Sync, CtStores
<1>18. CASE SetRisk(t)
  BY <1>2, <1>18, SetRiskKeeps DEF SetRisk, CtStores
<1>19. CASE TransitionLifecycle(t)
  BY <1>2, <1>19, TransitionLifecycleKeeps DEF TransitionLifecycle, CtStores
<1> QED BY <1>3, <1>4, <1>5, <1>6, <1>7, <1>8, <1>9, <1>10, <1>11, <1>12, <1>13, <1>14, <1>15, <1>16,
           <1>17, <1>18, <1>19 DEF Handle

LEMMA HandlerHears == ASSUME NEW t \in Clerks, Handle(t) \/ Break(t) PROVE Hearing(t)
BY DEF Handle, Break, LoadStore, LoadRecords, SaveFiled, SaveResolved, SaveAppeal, SaveDecided, Sanction,
       Lift, LedgerFails, LiftAll, OtherWrite, RecordIncident, Nominal, ReadLedger, Sync, SetRisk,
       TransitionLifecycle, Writing, Due

LEMMA CtKeeps == CtInv /\ OneAtATime /\ OneAtATime' /\ [CtNext]_ctvars => CtInv'
<1> SUFFICES ASSUME CtInv, OneAtATime, OneAtATime', [CtNext]_ctvars PROVE CtInv'
  OBVIOUS
<1>1. CASE UNCHANGED ctvars
  BY <1>1 DEF CtInv, Kept, Traced, OnRecord, ctvars
<1>2. ASSUME NEW t \in Clerks, Handle(t) PROVE CtInv'
  BY <1>2, HandlerHears, CtHandles DEF CtServed
<1>3. ASSUME NEW t \in Clerks, Break(t) PROVE CtInv'
  BY <1>3, HandlerHears, CtBreakKeeps DEF CtServed
<1> QED BY <1>1, <1>2, <1>3, CourtRequestBegins, OtherRequestBegins DEF CtNext

LEMMA CtFirst == CtInit => CtInv
<1> SUFFICES ASSUME CtInit PROVE CtInv
  OBVIOUS
<1>1. Kept
  BY DEF CtInit, Kept, NoViolation, NoAppeal, Violation, CtAppeal, AgentRow, Risks, valid_transitions, Nothing
<1>2. Traced
  BY DEF CtInit, Traced
<1>3. clerk \in [Clerks -> Clerk]
  BY AtRestTyped DEF CtInit
<1>4. \A t \in Clerks : clerk[t].todo = <<>>
  BY AtRestTyped DEF CtInit
<1> QED BY <1>1, <1>2, <1>3, <1>4 DEF CtInv, Knows

\* While one request is served at a time, for any number of agents, clerks, violations and
\* appeals and over any number of broken requests: a sanction leaves an agent only by a pending
\* appeal of a violation that applied it or when nothing of the agent is live, and incidents are
\* forgotten only then and without a sanction in force (decide_appeal, remediate).
THEOREM AlwaysLiftedForReason == CtSpec /\ []OneAtATime => LiftedForReason
<1> DEFINE Reason ==
      \A a \in Accused :
          LET clear == \A v \in VIds : violations[v].a = a => violations[v].status \notin Live
          IN /\ \A s \in ledger[a] \ ledger'[a] :
                  \/ clear
                  \/ \E v \in VIds, p \in AIds :
                        /\ violations[v].a = a /\ violations[v].applied = s
                        /\ appeals[p].v = v /\ appeals[p].status = "pending"
             /\ registry[a].count > 0 /\ registry'[a].count = 0 => clear /\ ledger[a] = {}
<1>1. ASSUME CtInv, OneAtATime, OneAtATime', CtNext PROVE Reason
  <2>0. \A a \in Accused : registry[a].count \in Nat /\ registry'[a].count \in Nat
    BY <1>1, CtKeeps DEF CtInv, Kept, AgentRow
  <2>1. CtStores => Reason
    <3> SUFFICES ASSUME CtStores, NEW a \in Accused
                 PROVE  ledger[a] \ ledger'[a] = {} /\ ~(registry[a].count > 0 /\ registry'[a].count = 0)
      OBVIOUS
    <3> QED BY <2>0 DEF CtStores, CountsUp
  <2>2. CASE UNCHANGED <<ledger, registry>>
    <3>1. CtStores
      BY <2>0, <2>2 DEF CtStores, CountsUp
    <3> QED BY <2>1, <3>1
  <2>3. ASSUME NEW t \in Clerks, CtServed(t), Lift(t) PROVE Reason
    <3> DEFINE p == appeals[clerk[t].p].v
    <3>1. /\ clerk[t].p \in AIds /\ appeals[clerk[t].p].status = "pending" /\ p \in VIds /\ registry' = registry
          /\ ledger' = [ledger EXCEPT ![violations[p].a] = @ \ {violations[p].applied}] \/ ledger' = ledger
      BY <2>3, LiftIs DEF Lifted
    <3>2. ledger \in [Accused -> SUBSET Sanctions]
      BY <1>1 DEF CtInv, Kept
    <3>3. ASSUME NEW a \in Accused, NEW s \in ledger[a] \ ledger'[a]
          PROVE  violations[p].a = a /\ violations[p].applied = s
      BY <3>1, <3>2, <3>3
    <3> HIDE DEF p
    <3>4. \A a \in Accused : \A s \in ledger[a] \ ledger'[a] :
             \E v \in VIds, q \in AIds : /\ violations[v].a = a /\ violations[v].applied = s
                                         /\ appeals[q].v = v /\ appeals[q].status = "pending"
      BY <3>1, <3>3 DEF p
    <3> QED BY <3>1, <3>4
  <2>4. ASSUME NEW t \in Clerks, CtServed(t), LiftAll(t) PROVE Reason
    <3>1. /\ ledger' = [ledger EXCEPT ![clerk[t].a] = {}] /\ registry' = registry
          /\ \A v \in VIds : violations[v].a = clerk[t].a => violations[v].status \notin Live
      BY <2>4, LiftAllIs DEF LiftAll
    <3>2. ledger \in [Accused -> SUBSET Sanctions]
      BY <1>1 DEF CtInv, Kept
    <3>3. \A a \in Accused : a = clerk[t].a \/ ledger'[a] = ledger[a]
      BY <3>1, <3>2
    <3> QED BY <3>1, <3>3
  <2>5. ASSUME NEW t \in Clerks, CtServed(t), Nominal(t) PROVE Reason
    <3>1. /\ \A a \in Accused : registry'[a].count = registry[a].count \/ a = clerk[t].a
          /\ ledger' = ledger /\ ledger[clerk[t].a] = {}
          /\ \A v \in VIds : violations[v].a = clerk[t].a => violations[v].status \notin Live
      BY <2>5, NominalKeeps DEF Nominal
    <3> QED BY <2>0, <3>1
  <2>6. ASSUME NEW t \in Clerks, Handle(t) PROVE Reason
    <3>1. CtServed(t)
      BY <1>1, <2>6, HandlerHears DEF CtServed
    <3> QED BY <2>1, <2>3, <2>4, <2>5, <2>6, <3>1, CtHandles
  <2> HIDE DEF Reason
  <2> QED BY <1>1, <2>2, <2>6 DEF CtNext, CourtRequest, OtherRequest, Break
<1>2. CtInv /\ OneAtATime /\ OneAtATime' /\ [CtNext]_ctvars => CtInv' /\ [Reason]_ctvars
  BY <1>1, CtKeeps
<1> QED BY <1>2, CtFirst, PTL DEF CtSpec, LiftedForReason

\* While one request is served at a time, for any number of agents, clerks and violations: at
\* rest, unless a request broke off, a sanction in force can be traced to a violation on record
\* (file_violation saves the violation after the sanction and the incident).
THEOREM SanctionsTraced == CtSpec /\ []OneAtATime => []SanctionRecorded
<1>1. CtInv => SanctionRecorded
  <2> SUFFICES ASSUME CtInv, AllIdle, breaks = 0, NEW a \in Accused, NEW s \in ledger[a] PROVE OnRecord(a, s)
    BY DEF SanctionRecorded, OnRecord
  <2>1. OnRecord(a, s) \/ \E t \in Clerks : Filing(clerk[t], a, s)
    BY DEF CtInv, Traced
  <2> QED BY <2>1 DEF AllIdle, Hearing, Filing
<1> QED BY <1>1, CtFirst, CtKeeps, PTL DEF CtSpec
=============================================================================
