-------------------------- MODULE SubscriptionsProofs --------------------------
(***************************************************************************)
(* Proofs about the subscriptions of one institution and about the         *)
(* operator's delivery engine.                                             *)
(***************************************************************************)
EXTENDS Subscriptions, DeliveryEngine, FiniteSetTheorems, SequenceTheorems, TLAPS

---------------------------------------------------------------------------
(***************************************************************************)
(* The delivery engine                                                     *)
(***************************************************************************)
\* Before the settlement nothing is paid, and which adapter pays is settled by the host.
Unsettled == {"idle", "issue", "enter", "activate", "fallback", "settle", "sign"}
             \cup {Chain[i] : i \in 1 .. 9}
Afterwards == {"leave", "analyse", "persist", "report"}
Paying ==
    /\ step \in Unsettled \cup Afterwards \cup {"refs", "over"}
    /\ moved \in {"none", "ledger", "chain"}
    /\ "tx_hash" \in known => moved = "chain"
    /\ known \subseteq {"tx_ref", "tx_hash", "signed"}
    /\ "tx_ref" \in known => moved = "ledger"
    /\ step \in Unsettled => moved = "none" /\ known = {}
    /\ step \in {Chain[i] : i \in 1 .. 9} \/ moved = "ledger" => Adapter = "internal_ledger"
    /\ step = "sign" => Adapter # "internal_ledger"
    /\ step = "refs" => IF Adapter = "internal_ledger" THEN moved = "ledger" ELSE host.key
    /\ step \in Afterwards /\ moved = "ledger" => "tx_ref" \in known
    /\ program = "golden" /\ step \in (Unsettled \cup {"refs"}) \ {"idle", "issue"}
         => warrant = "ready"
    /\ step # "over" => ~told.claim
EngineInv == Paying /\ PaymentIsTold

LEMMA ChainIs ==
  /\ DOMAIN Chain = 1 .. 10
  /\ Chain[1] = "recipient" /\ Chain[2] = "proposed" /\ Chain[3] = "accepted" /\ Chain[4] = "draft"
  /\ Chain[5] = "submitted" /\ Chain[6] = "reviewed" /\ Chain[7] = "approved"
  /\ Chain[8] = "dispute_window" /\ Chain[9] = "executed" /\ Chain[10] = "refs"
BY DEF Chain

\* A step of the chain leads to the next one, and only the last pays.
LEMMA ChainStep ==
  ASSUME step \in {Chain[i] : i \in 1 .. 9}
  PROVE  /\ Chain[ChainAt + 1] \in {Chain[i] : i \in 1 .. 9} \cup {"refs"}
         /\ Chain[ChainAt + 1] = "refs" <=> step = "executed"
<1>1. PICK k \in 1 .. 9 : Chain[k] = step OBVIOUS
<1>2. \A i \in DOMAIN Chain : Chain[i] = step => i = k BY <1>1, ChainIs
<1>3. k \in DOMAIN Chain BY ChainIs
<1>4. ChainAt = k BY <1>1, <1>2, <1>3 DEF ChainAt
<1>5. k = 9 <=> step = "executed" BY <1>1, ChainIs
<1>6. k + 1 \in 2 .. 10 /\ (k + 1 = 10 <=> k = 9) OBVIOUS
<1>7. \A i \in 2 .. 9 : Chain[i] # "refs" BY ChainIs
<1> HIDE DEF Chain
<1>8. Chain[k + 1] \in {Chain[i] : i \in 1 .. 9} \cup {"refs"} BY <1>6, ChainIs
<1>9. Chain[k + 1] = "refs" <=> step = "executed" BY <1>5, <1>6, <1>7, ChainIs
<1> QED BY <1>4, <1>8, <1>9

LEMMA UnsettledIs ==
  /\ Unsettled = {"idle", "issue", "enter", "activate", "fallback", "settle", "sign", "recipient",
                  "proposed", "accepted", "draft", "submitted", "reviewed", "approved",
                  "dispute_window", "executed"}
  /\ {Chain[i] : i \in 1 .. 9} = {"recipient", "proposed", "accepted", "draft", "submitted",
                                  "reviewed", "approved", "dispute_window", "executed"}
<1>1. {Chain[i] : i \in 1 .. 9} = {"recipient", "proposed", "accepted", "draft", "submitted",
                                   "reviewed", "approved", "dispute_window", "executed"}
  <2>1. \A i \in 1 .. 9 : i \in {1, 2, 3, 4, 5, 6, 7, 8, 9} OBVIOUS
  <2> QED BY <2>1, ChainIs
<1> QED BY <1>1 DEF Unsettled

LEMMA HostStays == [DeNext]_devars => host' = host /\ Adapter' = Adapter
<1> SUFFICES ASSUME [DeNext]_devars PROVE host' = host /\ Adapter' = Adapter OBVIOUS
<1>1. host' = host
  <2>1. CASE Launch BY <2>1 DEF Launch
  <2>2. CASE Issue BY <2>2 DEF Issue
  <2>3. CASE Enter BY <2>3 DEF Enter
  <2>4. CASE Activate BY <2>4 DEF Activate
  <2>5. CASE BrowserFallback BY <2>5 DEF BrowserFallback
  <2>6. CASE Settle BY <2>6 DEF Settle
  <2>7. CASE Advance BY <2>7 DEF Advance
  <2>8. CASE Sign BY <2>8 DEF Sign
  <2>9. CASE Attach BY <2>9 DEF Attach
  <2>10. CASE Leave BY <2>10 DEF Leave
  <2>11. CASE Analyse BY <2>11 DEF Analyse
  <2>12. CASE Persist BY <2>12 DEF Persist
  <2>13. CASE Report BY <2>13 DEF Report
  <2>14. CASE UNCHANGED devars BY <2>14 DEF devars
  <2> QED BY <2>1, <2>2, <2>3, <2>4, <2>5, <2>6, <2>7, <2>8, <2>9, <2>10, <2>11, <2>12, <2>13, <2>14 DEF DeNext
<1>2. Adapter = AdapterOf(host) /\ Adapter' = AdapterOf(host') BY Zenon DEF Adapter
<1>3. AdapterOf(host') = AdapterOf(host) BY <1>1, Zenon
<1> QED BY <1>1, <1>2, <1>3

LEMMA EngineStep == EngineInv /\ [DeNext]_devars => EngineInv'
<1> SUFFICES ASSUME EngineInv, [DeNext]_devars PROVE EngineInv' OBVIOUS
<1> USE UnsettledIs DEF EngineInv, Paying, Afterwards, PaymentIsTold
<1> HIDE DEF Unsettled
<1>0. Adapter' = Adapter BY HostStays
<1>1. CASE Launch
  <2>1. /\ step' \in {"enter", "issue"} /\ (program' = "golden" => step' = "issue")
        /\ moved' = "none" /\ known' = {} /\ warrant' = "none"
    BY <1>1 DEF Launch
  <2>2. ~told'.claim BY <1>1 DEF Launch, Untold
  <2> QED BY <1>0, <2>1, <2>2
<1>2. CASE Issue
  <2>1. step = "issue" /\ UNCHANGED <<host, program, known, moved, capture>> /\ warrant' \in {"ready", warrant}
    BY <1>2 DEF Issue
  <2>2. moved = "none" /\ known = {} BY <2>1
  <2>3. CASE warrant' = "ready" /\ step' = "enter" /\ told' = told BY <1>0, <2>1, <2>2, <2>3
  <2>4. CASE Fail /\ warrant' = warrant BY <1>0, <2>1, <2>2, <2>4 DEF Fail
  <2> QED BY <1>2, <2>3, <2>4 DEF Issue
<1>3. CASE Enter BY <1>0, <1>3 DEF Enter
<1>4. CASE Activate
  <2>1. step = "activate" /\ UNCHANGED <<host, program, known, moved, warrant>> BY <1>4 DEF Activate
  <2>2. moved = "none" /\ known = {} BY <2>1
  <2>3. CASE step' = "fallback" /\ told' = told BY <1>0, <2>1, <2>2, <2>3
  <2>4. CASE Fail BY <1>0, <2>1, <2>2, <2>4 DEF Fail
  <2> QED BY <1>4, <2>3, <2>4 DEF Activate
<1>5. CASE BrowserFallback BY <1>0, <1>5 DEF BrowserFallback
<1>6. CASE Settle BY <1>0, <1>6 DEF Settle
<1>7. CASE Advance
  <2>1. step \in {Chain[i] : i \in 1 .. 9} /\ UNCHANGED <<program, known, warrant, capture, host>>
    BY <1>7 DEF Advance
  <2>2. /\ moved = "none" /\ known = {} /\ (program = "golden" => warrant = "ready")
        /\ step \in Unsettled /\ Adapter = "internal_ledger"
    BY <2>1
  <2>3. CASE /\ step' = Chain[ChainAt + 1] /\ told' = told
             /\ moved' = MovedDone
    <3>1. step' \in Unsettled \cup {"refs"} /\ (step' = "refs" <=> step = "executed")
      BY <2>1, <2>3, ChainStep
    <3>2. step' = "refs" => moved' = "ledger" BY <2>3, <3>1 DEF MovedDone
    <3>3. step' # "refs" => moved' = "none" /\ step' \in Unsettled BY <2>2, <2>3, <3>1 DEF MovedDone
    <3>4. step \notin {"over", "idle", "issue"} /\ step' \notin {"over"} BY <2>1, <3>1
    <3>5. ~told'.claim /\ step' \notin Afterwards /\ "refs" \notin Unsettled BY <2>3, <3>1, <3>4
    <3>6. known' = {} /\ warrant' = warrant /\ warrant # "executed" BY <2>1, <2>2
    <3>7. Adapter' = "internal_ledger" /\ step' # "sign" BY <1>0, <2>1, <2>2, <2>3, ChainStep
    <3>8. step' \in (Unsettled \cup {"refs"}) \ {"idle", "issue"} => (program' = "golden" => warrant' = "ready")
      BY <2>1, <2>2
    <3> HIDE UnsettledIs DEF Afterwards
    <3>9. PaymentIsTold' BY <3>4, <3>5, <3>6
    <3>10. Paying' BY <3>1, <3>2, <3>3, <3>5, <3>6, <3>7, <3>8
    <3> QED BY <3>9, <3>10
  <2>4. CASE Fail /\ moved' \in {moved, MovedDone}
    <3>1. step' = "over" /\ told'.exit = "error" /\ ~told'.claim BY <2>4 DEF Fail
    <3>2. moved' \in {"none", "ledger"} BY <2>2, <2>4 DEF MovedDone
    <3> QED BY <1>0, <2>1, <2>2, <3>1, <3>2
  <2> QED BY <1>7, <2>3, <2>4 DEF Advance
<1>8. CASE Sign BY <1>0, <1>8 DEF Sign
<1>9. CASE Attach BY <1>0, <1>9 DEF Attach, Attached, Fail, WarrantGiven
<1>10. CASE Leave BY <1>0, <1>10 DEF Leave
<1>11. CASE Analyse BY <1>0, <1>11 DEF Analyse
<1>12. CASE Persist BY <1>0, <1>12 DEF Persist
<1>13. CASE Report BY <1>0, <1>13 DEF Report, ClaimOf
<1>14. CASE UNCHANGED devars BY <1>0, <1>14 DEF devars
<1> QED BY <1>1, <1>2, <1>3, <1>4, <1>5, <1>6, <1>7, <1>8, <1>9, <1>10, <1>11, <1>12, <1>13, <1>14
        DEF DeNext

\* For every host, program and number of runs: a run of the engine or the golden path that
\* paid by the ledger claims it or ends in an error, and what it knows of a payment on chain
\* it claims, unless the warrant could not be marked afterwards; what is claimed was paid,
\* signed or the worker's word; and a warrant is spent only on a payment by the ledger that
\* is on record or on an answer of the signer (PaymentIsTold).
THEOREM PaymentAlwaysTold == DeSpec => []PaymentIsTold
<1>1. DeInit => EngineInv
  BY UnsettledIs DEF DeInit, EngineInv, Paying, Afterwards, PaymentIsTold, Untold
<1>2. EngineInv => PaymentIsTold BY DEF EngineInv
<1> QED BY <1>1, <1>2, EngineStep, PTL DEF DeSpec
---------------------------------------------------------------------------
(***************************************************************************)
(* The service: what its requests do                                       *)
(***************************************************************************)

\* What a request may have ahead of it: an activation (A1 to A8, then the run and what
\* marks the preview), a conversion (C1 to C5), a draft (D1 to D4), a run by id or of a
\* pending job (P1, S1, R1, R2), a review of a pilot request (V1, V2), any other operation
\* (O1), and the last save (S2).
A1 == <<"quote", "add", "save", "stamp", "save", "queue", "save", "start", "markOutcome">>
A2 == <<"add", "save", "stamp", "save", "queue", "save", "start", "markOutcome">>
A3 == <<"save", "stamp", "save", "queue", "save", "start", "markOutcome">>
A4 == <<"stamp", "save", "queue", "save", "start", "markOutcome">>
A5 == <<"save", "queue", "save", "start", "markOutcome">>
A6 == <<"queue", "save", "start", "markOutcome">>
A7 == <<"save", "start", "markOutcome">>
A8 == <<"start", "markOutcome">>
M1 == <<"save", "run", "save", "markOutcome">>
M2 == <<"run", "save", "markOutcome">>
M3 == <<"save", "markOutcome">>
M4 == <<"markOutcome">>
C1 == <<"convert", "save", "add", "save", "stamp", "save">>
C2 == <<"save", "add", "save", "stamp", "save">>
C3 == <<"add", "save", "stamp", "save">>
C4 == <<"save", "stamp", "save">>
C5 == <<"stamp", "save">>
D1 == <<"quote", "draft", "save", "markDrafted">>
D2 == <<"draft", "save", "markDrafted">>
D3 == <<"save", "markDrafted">>
D4 == <<"markDrafted">>
P1 == <<"pending", "start">>
S1 == <<"start">>
R1 == <<"save", "run", "save">>
R2 == <<"run", "save">>
S2 == <<"save">>
V1 == <<"ack", "list">>
V2 == <<"list">>
O1(op) == <<op, "save">>
Unmade == {A1, A2}
Unlaunched == {A3, A4, A5, A6, A7, A8}
Runs == {R1, R2, M1, M2}
Ended == {S2, M3, M4}
Doing(op) ==
    CASE op = "convert"  -> {C1, C2, C3, C4, C5, S2}
      [] op = "draft"    -> {D1, D2, D3, D4}
      [] op = "activate" -> Unmade \cup Unlaunched \cup {M1, M2, M3, M4}
      [] op = "run"      -> {S1, R1, R2, S2}
      [] op = "pending"  -> {P1, S1, R1, R2, S2}
      [] op = "review"   -> {V1, V2}
      [] op = None       -> {<<>>}
      [] OTHER           -> {O1(op), S2}
Files == [subs : [Subs -> Record \cup {NoRecord}], jobs : [Subs -> JobStates],
          log : Seq(0 .. MaxSubs), drafts : SUBSET Pilots]
Birth == [who : Customers, quote : Pilots \cup {None}, earned : BOOLEAN]
Todos == UNION {Doing(op) : op \in Ops \cup {None}}
Requests == [op : Ops \cup {None}, who : Customers \cup {None}, plan : Plans \cup {None},
             ref : Refs \cup {None}, confirm : BOOLEAN, quote : Pilots \cup {None},
             sub : 0 .. MaxSubs, todo : Todos, copy : Files, delivered : BOOLEAN]

Owed(s, bn) == s \in 1 .. Len(bn) /\ bn[s].quote \in Pilots /\ bn[s].earned
FileOK(F, bn, st, pay) ==
    /\ F \in Files
    /\ \A s \in Subs :
        /\ Rows(F, s) <= st[s]
        /\ F.jobs[s] = "executed" => st[s] > 0
        /\ F.jobs[s] # None => Owed(s, bn)
        /\ F.subs[s] # NoRecord => s <= Len(bn)
        /\ F.subs[s] # NoRecord /\ bn[s].quote # None /\ F.subs[s].plan # "trial"
             => F.subs[s].verified /\ F.subs[s].ref \in pay
RequestOK(r, bn, st, pay) ==
    /\ r \in Requests
    /\ FileOK(r.copy, bn, st, pay)
    /\ r.todo # <<>> => r.op \in Ops /\ r.todo \in Doing(r.op)
                        /\ r.who \in Customers /\ r.plan \in Plans
    /\ IF r.op \in {"draft", "activate", "review"} THEN r.quote \in Pilots ELSE r.quote = None
    /\ r.op = "activate" /\ r.plan # "trial" => r.confirm
    /\ r.op = "activate" /\ r.todo # <<>> /\ r.todo \notin Unmade
         => r.sub \in 1 .. Len(bn) /\ bn[r.sub].quote = r.quote /\ bn[r.sub].earned
    /\ r.todo \in Runs => Owed(r.sub, bn)
    /\ r.op = "run" /\ r.todo # <<>> => r.sub \in Subs
    /\ r.op = "pending" /\ r.todo # <<>> /\ r.todo # P1 => r.sub \in Subs
    /\ r.delivered => /\ r.todo \in Ended
                      /\ r.sub \in Subs /\ st[r.sub] > 0

\* more was born, sent and paid
Longer(bn, st, pay, bn2, st2, pay2) ==
    /\ bn2 \in Seq(Birth) /\ Len(bn) <= Len(bn2) /\ \A i \in 1 .. Len(bn) : bn2[i] = bn[i]
    /\ st2 \in [Subs -> Nat] /\ \A s \in Subs : st[s] <= st2[s]
    /\ pay \subseteq pay2

PreviewsOK(pv, bn, st) ==
    /\ pv \in [Pilots -> Preview(0 .. MaxSubs)]
    /\ \A p \in Pilots :
        /\ pv[p].sub > 0 => pv[p].sub \in 1 .. Len(bn) /\ bn[pv[p].sub].quote = p
                             /\ bn[pv[p].sub].earned
        /\ pv[p].fulfilled => \E s \in Subs : s \in 1 .. Len(bn) /\ bn[s].quote = p /\ st[s] > 0
Room == Len(born) + Cardinality(Adding) <= MaxSubs

SubInv ==
    /\ born \in Seq(Birth) /\ sent \in [Subs -> Nat] /\ heard \in [Subs -> Nat]
    /\ payments \subseteq Refs
    /\ expired \subseteq Subs /\ byId \subseteq Subs /\ alone \in BOOLEAN /\ breaks \in Nat
    /\ Room
    /\ FileOK(file, born, sent, payments)
    /\ th \in [Threads -> Requests]
    /\ \A t \in Threads : RequestOK(th[t], born, sent, payments)
    /\ \A s \in Subs : sent[s] > 0 => Owed(s, born)
    /\ PreviewsOK(previews, born, sent)

\* what one copy has of another: what was saved stays, and no run was
\* logged (a log that is not full has not been cut)
Kept(F, G) == \A s \in Subs :
    /\ F.subs[s].status = "cancelled" => G.subs[s].status = "cancelled"
    /\ F.subs[s].verified => G.subs[s].verified
    /\ F.subs[s] # NoRecord => G.subs[s] # NoRecord
    /\ Len(G.log) < LogKept => Len(F.log) < LogKept /\ Rows(G, s) = Rows(F, s)

\* While requests are served one at a time: what a file keeps of the promises ak, what its
\* jobs say of the briefs sent, and what its log says of those a channel took.
Keeps(F, ak) == \A s \in Subs :
    /\ <<"cancelled", s>> \in ak => F.subs[s].status = "cancelled"
    /\ <<"verified", s>> \in ak => F.subs[s].verified
    /\ <<"added", s>> \in ak => F.subs[s] # NoRecord
Tried == {"executing", "executed", "blocked"}
Spent(F, st, ids) == \A s \in Subs \ ids : st[s] <= 1 /\ (st[s] = 1 => F.jobs[s] \in Tried)
CleanBut(F, hd, x) == \A s \in Subs :
    /\ Len(F.log) < LogKept => Rows(F, s) = hd[s]
    /\ s # x => F.jobs[s] # "executing"

\* a request whose copy is about to be saved, at once or after the run
Holding(r) == r.todo # <<>> /\ Head(r.todo) \in {"save", "run"}
Prepared(r, F) ==
    /\ Head(r.todo) = "save" /\ r.op = "cancel" => \A s \in Subs :
         F.subs[s].who = r.who /\ F.subs[s].status = "active" => r.copy.subs[s].status = "cancelled"
    /\ Head(r.todo) = "save" /\ r.op = "verify" => r.copy.subs[Last(ActivePaid(r.copy, r.who))].verified
Alright(r, F, st, hd, ids, ak, br) ==
    /\ r.op = "run" => r.sub \in ids
    /\ Holding(r) => Keeps(r.copy, ak) /\ Spent(r.copy, st, ids)
    /\ Prepared(r, F)
    /\ r.todo \in Runs => /\ r.sub \in ids \/ st[r.sub] = 0
                          /\ r.copy.jobs[r.sub] = "executing"
                          /\ Head(r.todo) = "run" => F.jobs[r.sub] = "executing"
    /\ r.op = "activate" /\ r.todo \in Unlaunched => st[r.sub] = 0
    /\ r.op = "pending" /\ Head(r.todo) = "start" => F.jobs[r.sub] \in {"queued", "ready"}
    /\ br = 0 => IF Holding(r) THEN CleanBut(r.copy, hd, IF r.todo \in Runs THEN r.sub ELSE 0)
                 ELSE CleanBut(F, hd, 0)

SerialInv == alone =>
    /\ \A t, u \in Threads : Busy(t) /\ Busy(u) => t = u
    /\ Keeps(file, acked) /\ Spent(file, sent, byId)
    /\ \A t \in Threads : Busy(t) => Alright(th[t], file, sent, heard, byId, acked, breaks)
    /\ breaks = 0 /\ (\A t \in Threads : ~Busy(t)) => CleanBut(file, heard, 0)

---------------------------------------------------------------------------
\* What is left of a request after each kind of step.
HasAdd(todo) == \E i \in DOMAIN todo : todo[i] = "add"

Size(todo) == Len(todo)
Ahead(todo) == Head(todo)
Left(todo) == Tail(todo)

LEMMA Activation ==
  /\ Size(A1) = 9 /\ Ahead(A1) = "quote" /\ Left(A1) = A2
  /\ Size(A2) = 8 /\ Ahead(A2) = "add"   /\ Left(A2) = A3
  /\ Size(A3) = 7 /\ Ahead(A3) = "save"  /\ Left(A3) = A4
  /\ Size(A4) = 6 /\ Ahead(A4) = "stamp" /\ Left(A4) = A5
  /\ Size(A5) = 5 /\ Ahead(A5) = "save"  /\ Left(A5) = A6
  /\ Size(A6) = 4 /\ Ahead(A6) = "queue" /\ Left(A6) = A7
  /\ Size(A7) = 3 /\ Ahead(A7) = "save"  /\ Left(A7) = A8
  /\ Size(A8) = 2 /\ Ahead(A8) = "start" /\ Left(A8) = M4
  /\ Size(M1) = 4 /\ Ahead(M1) = "save"  /\ Left(M1) = M2
  /\ Size(M2) = 3 /\ Ahead(M2) = "run"   /\ Left(M2) = M3
  /\ Size(M3) = 2 /\ Ahead(M3) = "save"  /\ Left(M3) = M4
  /\ Size(M4) = 1 /\ Ahead(M4) = "markOutcome" /\ Left(M4) = <<>>
  /\ Size(<<>>) = 0
BY DEF Size, Ahead, Left, A1, A2, A3, A4, A5, A6, A7, A8, M1, M2, M3, M4

LEMMA OtherWork ==
  /\ Size(C1) = 6 /\ Ahead(C1) = "convert" /\ Left(C1) = C2
  /\ Size(C2) = 5 /\ Ahead(C2) = "save"    /\ Left(C2) = C3
  /\ Size(C3) = 4 /\ Ahead(C3) = "add"     /\ Left(C3) = C4
  /\ Size(C4) = 3 /\ Ahead(C4) = "save"    /\ Left(C4) = C5
  /\ Size(C5) = 2 /\ Ahead(C5) = "stamp"   /\ Left(C5) = S2
  /\ Size(D1) = 4 /\ Ahead(D1) = "quote"   /\ Left(D1) = D2
  /\ Size(D2) = 3 /\ Ahead(D2) = "draft"   /\ Left(D2) = D3
  /\ Size(D3) = 2 /\ Ahead(D3) = "save"    /\ Left(D3) = D4
  /\ Size(D4) = 1 /\ Ahead(D4) = "markDrafted" /\ Left(D4) = <<>>
  /\ Size(P1) = 2 /\ Ahead(P1) = "pending" /\ Left(P1) = S1
  /\ Size(S1) = 1 /\ Ahead(S1) = "start"   /\ Left(S1) = <<>>
  /\ Size(R1) = 3 /\ Ahead(R1) = "save"    /\ Left(R1) = R2
  /\ Size(R2) = 2 /\ Ahead(R2) = "run"     /\ Left(R2) = S2
  /\ Size(S2) = 1 /\ Ahead(S2) = "save"    /\ Left(S2) = <<>>
  /\ Size(V1) = 2 /\ Ahead(V1) = "ack"     /\ Left(V1) = V2
  /\ Size(V2) = 1 /\ Ahead(V2) = "list"    /\ Left(V2) = <<>>
BY DEF Size, Ahead, Left, C1, C2, C3, C4, C5, D1, D2, D3, D4, P1, S1, R1, R2, S2, V1, V2

LEMMA AnyOther ==
  ASSUME NEW op
  PROVE  Size(O1(op)) = 2 /\ Ahead(O1(op)) = op /\ Left(O1(op)) = S2
BY DEF Size, Ahead, Left, O1, S2

LEMMA Additions ==
  /\ HasAdd(A1) /\ HasAdd(A2) /\ ~HasAdd(A3) /\ ~HasAdd(A4) /\ ~HasAdd(A5) /\ ~HasAdd(A6)
  /\ ~HasAdd(A7) /\ ~HasAdd(A8) /\ ~HasAdd(M1) /\ ~HasAdd(M2) /\ ~HasAdd(M3) /\ ~HasAdd(M4)
  /\ HasAdd(C1) /\ HasAdd(C2) /\ HasAdd(C3) /\ ~HasAdd(C4) /\ ~HasAdd(C5)
  /\ ~HasAdd(D1) /\ ~HasAdd(D2) /\ ~HasAdd(D3) /\ ~HasAdd(D4) /\ ~HasAdd(P1) /\ ~HasAdd(S1)
  /\ ~HasAdd(R1) /\ ~HasAdd(R2) /\ ~HasAdd(S2) /\ ~HasAdd(V1) /\ ~HasAdd(V2) /\ ~HasAdd(<<>>)
  /\ \A op : HasAdd(O1(op)) <=> op = "add"
<1> USE DEF HasAdd
<1>1. HasAdd(A1) /\ HasAdd(A2) BY DEF A1, A2
<1>2. ~HasAdd(A3) /\ ~HasAdd(A4) /\ ~HasAdd(A5) /\ ~HasAdd(A6) BY DEF A3, A4, A5, A6
<1>3. ~HasAdd(A7) /\ ~HasAdd(A8) /\ ~HasAdd(M1) /\ ~HasAdd(M2) /\ ~HasAdd(M3) /\ ~HasAdd(M4)
  BY DEF A7, A8, M1, M2, M3, M4
<1>4. HasAdd(C1) /\ HasAdd(C2) /\ HasAdd(C3) /\ ~HasAdd(C4) /\ ~HasAdd(C5)
  BY DEF C1, C2, C3, C4, C5
<1>5. ~HasAdd(D1) /\ ~HasAdd(D2) /\ ~HasAdd(D3) /\ ~HasAdd(D4) /\ ~HasAdd(P1) /\ ~HasAdd(S1)
  BY DEF D1, D2, D3, D4, P1, S1
<1>6. ~HasAdd(R1) /\ ~HasAdd(R2) /\ ~HasAdd(S2) /\ ~HasAdd(V1) /\ ~HasAdd(V2) /\ ~HasAdd(<<>>)
  BY DEF R1, R2, S2, V1, V2
<1>7. \A op : HasAdd(O1(op)) <=> op = "add" BY DEF O1
<1> QED BY <1>1, <1>2, <1>3, <1>4, <1>5, <1>6, <1>7

---------------------------------------------------------------------------
\* What each kind of step leaves ahead.
LEMMA AfterEdit ==
  ASSUME NEW op \in Ops, NEW todo \in Doing(op), Ahead(todo) \in LoadEdits
  PROVE  /\ Left(todo) \in Doing(op) /\ Left(todo) # <<>> /\ todo # <<>> /\ Ahead(Left(todo)) = "save"
         /\ todo \notin Runs /\ todo \notin Ended /\ Left(todo) \notin Runs
         /\ op \notin {"run", "pending", "review"}
         /\ op = "activate" => Left(todo) \in Unlaunched /\ Left(todo) \notin Unmade
         /\ op = "activate" => (todo \in Unmade <=> Ahead(todo) = "add")
         /\ op = "activate" => (todo \in Unlaunched <=> Ahead(todo) # "add")
         /\ Ahead(todo) = "queue" => op = "activate"
         /\ Ahead(todo) = "draft" => op = "draft"
         /\ Ahead(todo) = "add" => op \in {"add", "convert", "activate"}
         /\ op \in {"cancel", "verify"} => Ahead(todo) = op
         /\ HasAdd(Left(todo)) => HasAdd(todo)
         /\ Ahead(todo) = "add" => HasAdd(todo) /\ ~HasAdd(Left(todo))
<1> USE SubscriptionsAssumption, Activation, OtherWork, AnyOther, Additions
        DEF Doing, None, LoadEdits, Ended, Unmade, Unlaunched, Runs
<1>1. CASE op = "convert" BY <1>1
<1>2. CASE op = "draft" BY <1>2
<1>3. CASE op = "activate" BY <1>3
<1>4. CASE op \in {"run", "pending", "review"} BY <1>4
<1>5. CASE op \in {"add", "verify", "cancel", "email", "record"} BY <1>5
<1> QED BY <1>1, <1>2, <1>3, <1>4, <1>5

LEMMA AfterSave ==
  ASSUME NEW op \in Ops, NEW todo \in Doing(op), Ahead(todo) = "save"
  PROVE  /\ Left(todo) = <<>> \/ Left(todo) \in Doing(op)
         /\ todo # <<>>
         /\ op = "activate" => todo \notin Unmade /\ Left(todo) \notin Unmade
         /\ op = "activate" /\ Left(todo) \in Unlaunched => todo \in Unlaunched
         /\ Left(todo) \in Runs <=> todo \in Runs
         /\ Left(todo) # <<>> => (Left(todo) \in Runs <=> Ahead(Left(todo)) = "run")
         /\ Left(todo) # <<>> => Ahead(Left(todo)) # "save"
         /\ op = "pending" => todo # P1 /\ Left(todo) # P1
         /\ op \in {"pending", "run"} /\ Left(todo) # <<>> => Ahead(Left(todo)) # "start"
         /\ todo \in Ended /\ Left(todo) # <<>> => Left(todo) \in Ended
         /\ HasAdd(Left(todo)) => HasAdd(todo)
<1> USE SubscriptionsAssumption, Activation, OtherWork, AnyOther, Additions
        DEF Doing, None, LoadEdits, Ended, Unmade, Unlaunched, Runs
<1>1. CASE op = "convert" BY <1>1
<1>2. CASE op = "draft" BY <1>2
<1>3. CASE op = "activate" BY <1>3
<1>4. CASE op \in {"run", "pending", "review"} BY <1>4
<1>5. CASE op \in {"add", "verify", "cancel", "email", "record"} BY <1>5
<1> QED BY <1>1, <1>2, <1>3, <1>4, <1>5

LEMMA AfterRun ==
  ASSUME NEW op \in Ops, NEW todo \in Doing(op), Ahead(todo) = "run"
  PROVE  /\ Left(todo) \in Doing(op) /\ Left(todo) # <<>> /\ todo # <<>> /\ Ahead(Left(todo)) = "save"
         /\ todo \in Runs /\ Left(todo) \notin Runs /\ Left(todo) \in Ended
         /\ op \in {"run", "pending", "activate"}
         /\ op = "activate" => todo \notin Unmade /\ Left(todo) \notin Unmade \cup Unlaunched
         /\ op = "pending" => todo # P1 /\ Left(todo) # P1
         /\ ~HasAdd(Left(todo))
<1> USE SubscriptionsAssumption, Activation, OtherWork, AnyOther, Additions
        DEF Doing, None, LoadEdits, Ended, Unmade, Unlaunched, Runs
<1>1. CASE op = "convert" BY <1>1
<1>2. CASE op = "draft" BY <1>2
<1>3. CASE op = "activate" BY <1>3
<1>4. CASE op \in {"run", "pending", "review"} BY <1>4
<1>5. CASE op \in {"add", "verify", "cancel", "email", "record"} BY <1>5
<1> QED BY <1>1, <1>2, <1>3, <1>4, <1>5

LEMMA BeforeRun ==
  ASSUME NEW op \in Ops, NEW todo \in Doing(op), Ahead(todo) = "start"
  PROVE  /\ op \in {"run", "pending", "activate"} /\ todo # <<>>
         /\ op # "activate" => todo = S1 /\ Left(todo) = <<>>
         /\ op = "activate" => todo = A8 /\ Left(todo) = M4 /\ todo \in Unlaunched /\ todo \notin Unmade
         /\ todo \notin Runs /\ todo \notin Ended /\ todo # P1
<1> USE SubscriptionsAssumption, Activation, OtherWork, AnyOther, Additions
        DEF Doing, None, LoadEdits, Ended, Unmade, Unlaunched, Runs
<1>1. CASE op = "convert" BY <1>1
<1>2. CASE op = "draft" BY <1>2
<1>3. CASE op = "activate" BY <1>3
<1>4. CASE op \in {"run", "pending", "review"} BY <1>4
<1>5. CASE op \in {"add", "verify", "cancel", "email", "record"} BY <1>5
<1> QED BY <1>1, <1>2, <1>3, <1>4, <1>5

LEMMA AfterOthers ==
  ASSUME NEW op \in Ops, NEW todo \in Doing(op), Ahead(todo) \in {"pending", "quote", "ack", "list", "markDrafted", "markOutcome"}
  PROVE  /\ todo # <<>> /\ (Left(todo) = <<>> \/ Left(todo) \in Doing(op))
         /\ todo \notin Runs /\ Left(todo) \notin Runs /\ Left(todo) \notin Ended /\ Left(todo) # P1
         /\ op # "run" /\ Left(todo) \notin Unlaunched
         /\ op = "activate" /\ Ahead(todo) = "quote" => Left(todo) \in Unmade
         /\ Ahead(todo) = "pending" => op = "pending" /\ Left(todo) = S1 /\ todo \notin Ended
         /\ op = "pending" => Ahead(todo) = "pending"
         /\ Ahead(todo) = "quote" => todo \notin Ended
         /\ Ahead(todo) \in {"markDrafted", "markOutcome"} => Left(todo) = <<>>
         /\ Ahead(todo) = "markOutcome" => op = "activate" /\ todo \notin Unmade
         /\ Ahead(todo) \in {"ack", "list"} => op = "review"
         /\ Ahead(todo) = "markDrafted" => op = "draft"
         /\ Left(todo) # <<>> => Ahead(Left(todo)) \notin {"save", "run"}
         /\ HasAdd(Left(todo)) => HasAdd(todo)
<1> USE SubscriptionsAssumption, Activation, OtherWork, AnyOther, Additions
        DEF Doing, None, LoadEdits, Ended, Unmade, Unlaunched, Runs
<1>1. CASE op = "convert" BY <1>1
<1>2. CASE op = "draft" BY <1>2
<1>3. CASE op = "activate" BY <1>3
<1>4. CASE op \in {"run", "pending", "review"} BY <1>4
<1>5. CASE op \in {"add", "verify", "cancel", "email", "record"} BY <1>5
<1> QED BY <1>1, <1>2, <1>3, <1>4, <1>5

---------------------------------------------------------------------------
\* A set of subscriptions has a first and a last one.
LEMMA Endmost ==
  ASSUME NEW S \in SUBSET Subs, S # {}
  PROVE  First(S) \in S /\ Last(S) \in S
<1> USE SubscriptionsAssumption DEF Subs
<1> DEFINE R == OpToRel(<, Nat)
<1>1. IsWellFoundedOn(R, Nat) BY NatLessThanWellFounded
<1>2. \A x, y \in Nat : <<y, x>> \in R <=> y < x BY DEF OpToRel
<1> HIDE DEF R
<1>3. S \subseteq Nat /\ \A s \in S : s <= MaxSubs OBVIOUS
<1>4. \E x \in S : \A y \in S : x <= y
  <2>1. PICK x \in S : \A y \in S : ~(<<y, x>> \in R) BY <1>1, <1>3, WFMin
  <2>2. ASSUME NEW y \in S PROVE x <= y
    <3>1. x \in Nat /\ y \in Nat BY <1>3
    <3>2. ~(y < x) BY <1>2, <2>1, <3>1
    <3> QED BY <3>1, <3>2
  <2> QED BY <2>2
<1>5. \E x \in S : \A y \in S : x >= y
  <2> DEFINE T == {MaxSubs - s : s \in S}
  <2>1. ASSUME NEW s \in S PROVE MaxSubs - s \in Nat BY <1>3
  <2>2. T \subseteq Nat /\ T # {} BY <2>1
  <2>3. \A s \in S : MaxSubs - s \in T OBVIOUS
  <2>4. \A z \in T : \E s \in S : z = MaxSubs - s OBVIOUS
  <2> HIDE DEF T
  <2>5. PICK z \in T : \A y \in T : ~(<<y, z>> \in R) BY <1>1, <2>2, WFMin
  <2>6. PICK x \in S : z = MaxSubs - x BY <2>4
  <2>7. ASSUME NEW y \in S PROVE x >= y
    <3>1. x \in Nat /\ y \in Nat /\ MaxSubs - y \in T BY <1>3, <2>3
    <3>2. MaxSubs - y \in Nat /\ z \in Nat BY <2>2, <3>1
    <3>3. ~(<<MaxSubs - y, z>> \in R) BY <2>5, <3>1
    <3>4. ~(MaxSubs - y < z) BY <1>2, <3>2, <3>3
    <3> QED BY <2>6, <3>1, <3>4
  <2> QED BY <2>7
<1> QED BY <1>4, <1>5 DEF First, Last

\* The log: how many rows there are of a subscription, and what one more makes of that.
Log == Seq(0 .. MaxSubs)

LEMMA RowsNat ==
  ASSUME NEW F, F.log \in Log, NEW s
  PROVE  Rows(F, s) \in Nat /\ Len(F.log) \in Nat
         /\ IsFiniteSet({i \in 1 .. Len(F.log) : F.log[i] = s})
<1>1. Len(F.log) \in Nat BY DEF Log
<1>2. IsFiniteSet(1 .. Len(F.log)) BY <1>1, FS_Interval
<1>3. {i \in 1 .. Len(F.log) : F.log[i] = s} \subseteq 1 .. Len(F.log) OBVIOUS
<1>4. IsFiniteSet({i \in 1 .. Len(F.log) : F.log[i] = s}) BY <1>2, <1>3, FS_Subset
<1> QED BY <1>1, <1>4, FS_CardinalityType DEF Rows

LEMMA SameLog ==
  ASSUME NEW F, NEW G, G.log = F.log
  PROVE  Len(G.log) = Len(F.log) /\ \A s : Rows(G, s) = Rows(F, s)
BY DEF Rows

LEMMA OneRow ==
  ASSUME NEW F, F.log \in Log, NEW G, NEW row \in 0 .. MaxSubs, G.log = Append(F.log, row), NEW s
  PROVE  /\ G.log \in Log /\ Len(G.log) = Len(F.log) + 1
         /\ Rows(G, s) = IF row = s THEN Rows(F, s) + 1 ELSE Rows(F, s)
<1> DEFINE A == {i \in 1 .. Len(F.log) : F.log[i] = s}
           B == {i \in 1 .. Len(G.log) : G.log[i] = s}
           n == Len(F.log) + 1
<1>1. Rows(F, s) = Cardinality(A) /\ Rows(G, s) = Cardinality(B) /\ IsFiniteSet(A) /\ Len(F.log) \in Nat
  BY RowsNat DEF Rows
<1>2. /\ G.log \in Log /\ Len(G.log) = n /\ G.log[n] = row
      /\ \A i \in 1 .. Len(F.log) : G.log[i] = F.log[i]
  BY DEF Log
<1>3. 1 .. Len(G.log) = (1 .. Len(F.log)) \cup {n} /\ n \notin 1 .. Len(F.log) BY <1>1, <1>2
<1>4. B = IF row = s THEN A \cup {n} ELSE A BY <1>2, <1>3
<1>5. n \notin A BY <1>3
<1> HIDE DEF A, B, n
<1>6. Cardinality(A \cup {n}) = Cardinality(A) + 1 BY <1>1, <1>5, FS_AddElement
<1> QED BY <1>1, <1>2, <1>4, <1>6 DEF n

LEMMA LastOnes ==
  ASSUME NEW S, NEW L \in Seq(S), NEW d \in Nat, NEW k \in Nat, d + k = Len(L)
  PROVE  /\ SubSeq(L, d + 1, Len(L)) \in Seq(S) /\ Len(SubSeq(L, d + 1, Len(L))) = k
         /\ \A i \in 1 .. k : SubSeq(L, d + 1, Len(L))[i] = L[i + d]
<1> DEFINE n == Len(L)  m == d + 1
<1>1. n \in Int /\ m \in Int OBVIOUS
<1>2. \A i \in m .. n : L[i] \in S OBVIOUS
<1>3. /\ (IF m <= n THEN n - m + 1 ELSE 0) = k /\ n - m + 1 = k
      /\ \A i \in 1 .. k : m + i - 1 = i + d
  OBVIOUS
<1> HIDE DEF n, m
<1>4. /\ SubSeq(L, m, n) \in Seq(S)
      /\ Len(SubSeq(L, m, n)) = IF m <= n THEN n - m + 1 ELSE 0
      /\ \A i \in 1 .. n - m + 1 : SubSeq(L, m, n)[i] = L[m + i - 1]
  BY <1>1, <1>2, SubSeqProperties
<1>5. \A i \in 1 .. k : SubSeq(L, m, n)[i] = L[m + i - 1] BY <1>3, <1>4, Zenon
<1>6. \A i \in 1 .. k : SubSeq(L, m, n)[i] = L[i + d] BY <1>3, <1>5, Zenon
<1>7. Len(SubSeq(L, m, n)) = k BY <1>3, <1>4, Zenon
<1> QED BY <1>4, <1>6, <1>7, Zenon DEF n, m

LEMMA CutRows ==
  ASSUME NEW F, F.log \in Log, NEW G, Len(F.log) > LogKept, NEW s,
         G.log = SubSeq(F.log, Len(F.log) - LogKept + 1, Len(F.log))
  PROVE  G.log \in Log /\ Len(G.log) = LogKept /\ Rows(G, s) <= Rows(F, s)
<1> DEFINE d == Len(F.log) - LogKept
           A == {i \in 1 .. Len(F.log) : F.log[i] = s}
           B == {i \in 1 .. Len(G.log) : G.log[i] = s}
<1>1. Rows(F, s) = Cardinality(A) /\ Rows(G, s) = Cardinality(B) /\ IsFiniteSet(A) /\ Len(F.log) \in Nat
  BY RowsNat DEF Rows
<1>2. LogKept \in Nat /\ d \in Nat /\ d + LogKept = Len(F.log) /\ d >= 1
  BY <1>1, SubscriptionsAssumption
<1>3. /\ G.log \in Log /\ Len(G.log) = LogKept
      /\ \A i \in 1 .. LogKept : G.log[i] = F.log[i + d]
  <2> DEFINE L == F.log
  <2>1. L \in Seq(0 .. MaxSubs) /\ G.log = SubSeq(L, d + 1, Len(L)) /\ d + LogKept = Len(L)
    BY <1>2 DEF Log
  <2> HIDE DEF L, d
  <2>2. /\ SubSeq(L, d + 1, Len(L)) \in Seq(0 .. MaxSubs) /\ Len(SubSeq(L, d + 1, Len(L))) = LogKept
        /\ \A i \in 1 .. LogKept : SubSeq(L, d + 1, Len(L))[i] = L[i + d]
    BY <1>2, <2>1, LastOnes
  <2> QED BY <2>1, <2>2 DEF Log, L
<1>4. ASSUME NEW i \in B PROVE i + d \in A /\ i \in Nat
  <2>1. i \in 1 .. LogKept /\ G.log[i] = s BY <1>3
  <2>2. F.log[i + d] = s /\ i + d \in 1 .. Len(F.log) /\ i \in Nat BY <1>1, <1>2, <1>3, <2>1
  <2> HIDE DEF d
  <2> QED BY <2>2
<1> DEFINE f == [i \in B |-> i + d]
<1> HIDE DEF A, B
<1>5. f \in [B -> A] BY <1>4
<1>6. \A i, j \in B : f[i] = f[j] => i = j BY <1>2, <1>4
<1>7. f \in Injection(B, A) BY <1>5, <1>6 DEF Injection, IsInjective
<1>8. Cardinality(B) <= Cardinality(A) BY <1>1, <1>7, FS_Injection
<1> QED BY <1>1, <1>3, <1>8

\* One more row in a log that is cut: none of the rows there were is counted twice, and a log
\* that is not full yet has the row and all that went before.
LEMMA LoggedIs ==
  ASSUME NEW F, F.log \in Log, NEW G, NEW row \in 0 .. MaxSubs, G.log = Logged(F.log, row), NEW s
  PROVE  /\ G.log \in Log
         /\ Rows(G, s) <= IF row = s THEN Rows(F, s) + 1 ELSE Rows(F, s)
         /\ Len(G.log) < LogKept
              => /\ Len(F.log) < LogKept
                 /\ Rows(G, s) = IF row = s THEN Rows(F, s) + 1 ELSE Rows(F, s)
<1> DEFINE more == IF row = s THEN Rows(F, s) + 1 ELSE Rows(F, s)
<1>0. [log |-> Append(F.log, row)].log = Append(F.log, row) OBVIOUS
<1>1. PICK H : H.log = Append(F.log, row) BY <1>0, Zenon
<1> HIDE DEF more
<1>2. H.log \in Log /\ Len(H.log) = Len(F.log) + 1 /\ Rows(H, s) = more
  <2>1. \A c : /\ H.log \in Log /\ Len(H.log) = Len(F.log) + 1
               /\ Rows(H, c) = IF row = c THEN Rows(F, c) + 1 ELSE Rows(F, c)
    BY <1>1, OneRow, Zenon
  <2> QED BY <2>1 DEF more
<1>3. Rows(H, s) \in Nat /\ Len(F.log) \in Nat /\ Rows(F, s) \in Nat /\ LogKept \in Nat
  BY <1>2, RowsNat, SubscriptionsAssumption
<1> HIDE DEF more
<1>4. CASE Len(H.log) > LogKept
  <2>1. G.log = SubSeq(H.log, Len(H.log) - LogKept + 1, Len(H.log)) BY <1>1, <1>4 DEF Logged
  <2>2. G.log \in Log /\ Len(G.log) = LogKept /\ Rows(G, s) <= Rows(H, s) BY <1>2, <1>4, <2>1, CutRows
  <2> QED BY <1>2, <1>3, <2>2 DEF more
<1>5. CASE ~(Len(H.log) > LogKept)
  <2>1. G.log = H.log BY <1>1, <1>5 DEF Logged
  <2>2. Rows(G, s) = Rows(H, s) BY <2>1, SameLog
  <2> QED BY <1>2, <1>3, <1>5, <2>1, <2>2 DEF more
<1> QED BY <1>4, <1>5

\* What holds of a file holds of it when more was born, sent or paid.
LEMMA FileStands ==
  ASSUME NEW F, NEW bn, NEW st, NEW pay, NEW bn2, NEW st2, NEW pay2,
         FileOK(F, bn, st, pay), bn \in Seq(Birth), Longer(bn, st, pay, bn2, st2, pay2),
         st \in [Subs -> Nat]
  PROVE  FileOK(F, bn2, st2, pay2)
<1> USE SubscriptionsAssumption DEF Subs
<1>1. F \in Files BY DEF FileOK
<1>2. /\ Len(bn) \in Nat /\ Len(bn2) \in Nat /\ Len(bn) <= Len(bn2) /\ pay \subseteq pay2
      /\ st2 \in [Subs -> Nat] /\ \A i \in 1 .. Len(bn) : bn2[i] = bn[i]
      /\ \A s \in Subs : st[s] <= st2[s]
  BY DEF Longer
<1>3. ASSUME NEW s \in Subs PROVE
        /\ Rows(F, s) <= st2[s]
        /\ F.jobs[s] = "executed" => st2[s] > 0
        /\ F.jobs[s] # None => Owed(s, bn2)
        /\ F.subs[s] # NoRecord => s <= Len(bn2)
        /\ F.subs[s] # NoRecord /\ bn2[s].quote # None /\ F.subs[s].plan # "trial"
             => F.subs[s].verified /\ F.subs[s].ref \in pay2
  <2>1. Rows(F, s) \in Nat /\ st[s] \in Nat /\ st2[s] \in Nat BY <1>1, <1>2, RowsNat DEF Files, Log
  <2>2. /\ Rows(F, s) <= st[s]
        /\ F.jobs[s] = "executed" => st[s] > 0
        /\ F.jobs[s] # None => Owed(s, bn)
        /\ F.subs[s] # NoRecord => s <= Len(bn)
        /\ F.subs[s] # NoRecord /\ bn[s].quote # None /\ F.subs[s].plan # "trial"
             => F.subs[s].verified /\ F.subs[s].ref \in pay
    BY DEF FileOK
  <2>3. st[s] <= st2[s] BY <1>2
  <2>4. s <= Len(bn) => s \in 1 .. Len(bn) /\ bn2[s] = bn[s] BY <1>2
  <2>5. F.jobs[s] # None => Owed(s, bn2) BY <1>2, <2>2, <2>4 DEF Owed
  <2>6. Rows(F, s) <= st2[s] /\ (F.jobs[s] = "executed" => st2[s] > 0) BY <2>1, <2>2, <2>3
  <2>7. F.subs[s] # NoRecord => s <= Len(bn2) BY <1>2, <2>2
  <2>8. F.subs[s] # NoRecord => bn2[s] = bn[s] BY <2>2, <2>4
  <2> QED BY <1>2, <2>2, <2>5, <2>6, <2>7, <2>8
<1> QED BY <1>1, <1>3 DEF FileOK

LEMMA RequestStands ==
  ASSUME NEW r, NEW bn, NEW st, NEW pay, NEW bn2, NEW st2, NEW pay2,
         RequestOK(r, bn, st, pay), bn \in Seq(Birth), Longer(bn, st, pay, bn2, st2, pay2),
         st \in [Subs -> Nat]
  PROVE  RequestOK(r, bn2, st2, pay2)
<1>1. FileOK(r.copy, bn2, st2, pay2) BY FileStands DEF RequestOK
<1>2. /\ Len(bn) \in Nat /\ Len(bn2) \in Nat /\ Len(bn) <= Len(bn2)
      /\ st2 \in [Subs -> Nat] /\ \A i \in 1 .. Len(bn) : bn2[i] = bn[i]
      /\ \A s \in Subs : st[s] <= st2[s]
  BY DEF Longer
<1>3. \A s \in 1 .. Len(bn) : s \in 1 .. Len(bn2) /\ bn2[s] = bn[s] BY <1>2
<1>4. r.todo \in Runs => Owed(r.sub, bn2) BY <1>3 DEF RequestOK, Owed
<1>5. r.delivered => r.todo \in Ended /\ r.sub \in Subs /\ st2[r.sub] > 0
  <2> SUFFICES ASSUME r.delivered PROVE r.todo \in Ended /\ r.sub \in Subs /\ st2[r.sub] > 0 OBVIOUS
  <2>1. r.todo \in Ended /\ r.sub \in Subs /\ st[r.sub] > 0 BY DEF RequestOK
  <2>2. st[r.sub] \in Nat /\ st2[r.sub] \in Nat /\ st[r.sub] <= st2[r.sub] BY <1>2, <2>1
  <2> QED BY <2>1, <2>2
<1>6. r.op = "activate" /\ r.todo # <<>> /\ r.todo \notin Unmade
         => r.sub \in 1 .. Len(bn2) /\ bn2[r.sub].quote = r.quote /\ bn2[r.sub].earned
  BY <1>3 DEF RequestOK
<1> QED BY <1>1, <1>4, <1>5, <1>6 DEF RequestOK

---------------------------------------------------------------------------
\* The edits.
\* A file with other records, each of them as the file's or in order itself.
LEMMA FileEdited ==
  ASSUME NEW F, NEW G, NEW bn, NEW st, NEW pay, FileOK(F, bn, st, pay), G \in Files,
         G.jobs = F.jobs, G.log = F.log,
         \A s \in Subs : G.subs[s] # NoRecord => s <= Len(bn),
         \A s \in Subs : G.subs[s] # NoRecord /\ bn[s].quote # None /\ G.subs[s].plan # "trial"
                           => G.subs[s].verified /\ G.subs[s].ref \in pay
  PROVE  FileOK(G, bn, st, pay)
BY SameLog DEF FileOK

LEMMA SubsSet ==
  ASSUME NEW F \in Files, NEW f \in [Subs -> Record \cup {NoRecord}]
  PROVE  /\ [F EXCEPT !.subs = f] \in Files
         /\ [F EXCEPT !.subs = f].subs = f /\ [F EXCEPT !.subs = f].jobs = F.jobs
         /\ [F EXCEPT !.subs = f].log = F.log
BY DEF Files

LEMMA Records ==
  ASSUME NEW F \in Files, NEW who \in Customers
  PROVE  /\ F.subs \in [Subs -> Record \cup {NoRecord}]
         /\ ActivePaid(F, who) \in SUBSET Subs /\ ActiveTrials(F, who) \in SUBSET Subs
         /\ \A s \in Of(F, who) : s \in Subs /\ F.subs[s] \in Record /\ F.subs[s] # NoRecord
         /\ \A s \in ActivePaid(F, who) : s \in Of(F, who) /\ F.subs[s].plan # "trial"
                                          /\ F.subs[s].status = "active"
         /\ \A s \in ActiveTrials(F, who) : s \in Of(F, who) /\ F.subs[s].plan = "trial"
                                            /\ F.subs[s].status = "active"
BY SubscriptionsAssumption DEF Files, ActivePaid, ActiveTrials, ActiveOf, Of, NoRecord

LEMMA EditConvert ==
  ASSUME NEW F, NEW r, NEW bn, NEW st, NEW pay, FileOK(F, bn, st, pay), r.who \in Customers,
         Accepts("convert", r, F)
  PROVE  /\ FileOK(Edited("convert", r, F), bn, st, pay)
         /\ Kept(F, Edited("convert", r, F)) /\ Edited("convert", r, F).jobs = F.jobs
<1> DEFINE x == First(ActiveTrials(F, r.who))
           rec == [F.subs[x] EXCEPT !.status = "converted"]
           f == [F.subs EXCEPT ![x] = rec]
           G == [F EXCEPT !.subs = f]
<1>1. F \in Files BY DEF FileOK
<1>2. x \in ActiveTrials(F, r.who) BY <1>1, Records, Endmost DEF Accepts
<1>3. x \in Subs /\ F.subs[x] \in Record /\ F.subs[x] # NoRecord /\ F.subs[x].plan = "trial"
      /\ F.subs[x].status # "cancelled"
  BY <1>1, <1>2, Records
<1>4. rec \in Record /\ rec.plan = "trial" /\ rec.verified = F.subs[x].verified BY <1>3 DEF Record
<1>5. Edited("convert", r, F) = G
  BY <1>1 DEF Edited, Files
<1> HIDE DEF x, rec
<1>6. f \in [Subs -> Record \cup {NoRecord}] BY <1>1, <1>3, <1>4, Records DEF Files
<1>7. \A s \in Subs : f[s] = IF s = x THEN rec ELSE F.subs[s] BY <1>1 DEF Files
<1> HIDE DEF f
<1>8. G \in Files /\ G.subs = f /\ G.jobs = F.jobs /\ G.log = F.log BY <1>1, <1>6, SubsSet
<1> HIDE DEF G
<1>9. \A s \in Subs : G.subs[s] # NoRecord => s <= Len(bn) BY <1>3, <1>7, <1>8 DEF FileOK
<1>10. \A s \in Subs : G.subs[s] # NoRecord /\ bn[s].quote # None /\ G.subs[s].plan # "trial"
                           => G.subs[s].verified /\ G.subs[s].ref \in pay
  BY <1>3, <1>4, <1>7, <1>8 DEF FileOK
<1>11. rec # NoRecord BY <1>4 DEF NoRecord, Record, None
<1>12. Kept(F, G) BY <1>3, <1>4, <1>7, <1>8, <1>11, SameLog DEF Kept
<1> QED BY <1>5, <1>8, <1>9, <1>10, <1>12, FileEdited

LEMMA EditVerify ==
  ASSUME NEW F, NEW r, NEW bn, NEW st, FileOK(F, bn, st, payments), r.who \in Customers,
         payments \subseteq Refs, Accepts("verify", r, F)
  PROVE  /\ FileOK(Edited("verify", r, F), bn, st, payments)
         /\ Kept(F, Edited("verify", r, F)) /\ Edited("verify", r, F).jobs = F.jobs
         /\ Edited("verify", r, F).subs[Last(ActivePaid(Edited("verify", r, F), r.who))].verified
<1> DEFINE x == Last(ActivePaid(F, r.who))
           ref == RefToVerify(r, F)
           rec == [F.subs[x] EXCEPT !.ref = ref, !.verified = TRUE]
           f == [F.subs EXCEPT ![x] = rec]
           G == [F EXCEPT !.subs = f]
<1>1. F \in Files BY DEF FileOK
<1>2. x \in ActivePaid(F, r.who) /\ ref \in payments BY <1>1, Records, Endmost DEF Accepts
<1>3. x \in Subs /\ F.subs[x] \in Record /\ F.subs[x] # NoRecord
  BY <1>1, <1>2, Records
<1> HIDE DEF ref
<1>4. /\ rec \in Record /\ rec.verified = TRUE /\ rec.ref = ref /\ rec.status = F.subs[x].status
      /\ rec.who = F.subs[x].who /\ rec.plan = F.subs[x].plan
  BY <1>2, <1>3 DEF Record
<1>5. rec # NoRecord BY <1>4 DEF NoRecord
<1>6. Edited("verify", r, F) = G
  BY <1>1 DEF Edited, Files, ref
<1> HIDE DEF x, rec
<1>7. f \in [Subs -> Record \cup {NoRecord}] BY <1>1, <1>3, <1>4, Records DEF Files
<1>8. \A s \in Subs : f[s] = IF s = x THEN rec ELSE F.subs[s] BY <1>1 DEF Files
<1> HIDE DEF f
<1>9. G \in Files /\ G.subs = f /\ G.jobs = F.jobs /\ G.log = F.log BY <1>1, <1>7, SubsSet
<1> HIDE DEF G
<1>10. \A s \in Subs : G.subs[s] # NoRecord => s <= Len(bn) BY <1>3, <1>8, <1>9 DEF FileOK
<1>11. \A s \in Subs : G.subs[s] # NoRecord /\ bn[s].quote # None /\ G.subs[s].plan # "trial"
                           => G.subs[s].verified /\ G.subs[s].ref \in payments
  BY <1>2, <1>3, <1>4, <1>8, <1>9 DEF FileOK
<1>12. FileOK(G, bn, st, payments) BY <1>9, <1>10, <1>11, FileEdited
<1>13. \A s \in Subs : G.subs[s].who = F.subs[s].who /\ G.subs[s].plan = F.subs[s].plan
                       /\ G.subs[s].status = F.subs[s].status
  BY <1>4, <1>8, <1>9
<1>14. ActivePaid(G, r.who) = ActivePaid(F, r.who) BY <1>13 DEF ActivePaid, ActiveOf, Of
<1>15. G.subs[x].verified BY <1>3, <1>4, <1>8, <1>9
<1>16. Kept(F, G) BY <1>4, <1>5, <1>8, <1>9, <1>13, SameLog DEF Kept
<1>17. G.subs[Last(ActivePaid(G, r.who))].verified BY <1>14, <1>15 DEF x
<1> QED BY <1>6, <1>9, <1>12, <1>16, <1>17

LEMMA EditCancel ==
  ASSUME NEW F, NEW r, NEW bn, NEW st, NEW pay, FileOK(F, bn, st, pay), r.who \in Customers
  PROVE  /\ FileOK(Edited("cancel", r, F), bn, st, pay)
         /\ Kept(F, Edited("cancel", r, F)) /\ Edited("cancel", r, F).jobs = F.jobs
         /\ \A s \in Subs : F.subs[s].who = r.who /\ F.subs[s].status = "active"
              => Edited("cancel", r, F).subs[s].status = "cancelled"
<1> DEFINE f == [s \in Subs |-> IF s \in ActiveOf(F, r.who)
                                THEN [F.subs[s] EXCEPT !.status = "cancelled"] ELSE F.subs[s]]
           G == [F EXCEPT !.subs = f]
<1>1. F \in Files BY DEF FileOK
<1>2. Edited("cancel", r, F) = G BY DEF Edited
<1>3. ASSUME NEW s \in Subs
      PROVE  /\ f[s] \in Record \cup {NoRecord}
             /\ f[s] # NoRecord <=> F.subs[s] # NoRecord
             /\ f[s] # NoRecord => f[s].plan = F.subs[s].plan /\ f[s].ref = F.subs[s].ref
             /\ f[s].verified = F.subs[s].verified
             /\ F.subs[s].status = "cancelled" => f[s].status = "cancelled"
             /\ s \in ActiveOf(F, r.who) => f[s].status = "cancelled"
  <2>1. CASE s \in ActiveOf(F, r.who)
    <3>1. F.subs[s] \in Record /\ F.subs[s] # NoRecord BY <1>1, <2>1, Records DEF ActiveOf
    <3> DEFINE rec == [F.subs[s] EXCEPT !.status = "cancelled"]
    <3>2. rec \in Record /\ rec.status = "cancelled" /\ rec.plan = F.subs[s].plan
          /\ rec.ref = F.subs[s].ref /\ rec.verified = F.subs[s].verified
      BY <3>1 DEF Record
    <3>3. rec # NoRecord BY <3>2 DEF NoRecord, Record, None
    <3>4. f[s] = rec BY <2>1
    <3> HIDE DEF f, rec
    <3> QED BY <3>1, <3>2, <3>3, <3>4
  <2>2. CASE s \notin ActiveOf(F, r.who)
    <3>1. f[s] = F.subs[s] BY <2>2
    <3>2. F.subs[s] \in Record \cup {NoRecord} BY <1>1 DEF Files
    <3> HIDE DEF f
    <3> QED BY <2>2, <3>1, <3>2
  <2> QED BY <2>1, <2>2
<1>4. f \in [Subs -> Record \cup {NoRecord}] BY <1>3
<1> HIDE DEF f
<1>5. G \in Files /\ G.subs = f /\ G.jobs = F.jobs /\ G.log = F.log BY <1>1, <1>4, SubsSet
<1> HIDE DEF G
<1>6. \A s \in Subs : G.subs[s] # NoRecord => s <= Len(bn) BY <1>3, <1>5 DEF FileOK
<1>7. \A s \in Subs : G.subs[s] # NoRecord /\ bn[s].quote # None /\ G.subs[s].plan # "trial"
                           => G.subs[s].verified /\ G.subs[s].ref \in pay
  BY <1>3, <1>5 DEF FileOK
<1>8. FileOK(G, bn, st, pay) BY <1>5, <1>6, <1>7, FileEdited
<1>9. Kept(F, G) BY <1>3, <1>5, SameLog DEF Kept
<1>10. \A s \in Subs : F.subs[s].who = r.who /\ F.subs[s].status = "active"
              => G.subs[s].status = "cancelled"
  BY <1>3, <1>5 DEF ActiveOf, Of
<1> QED BY <1>2, <1>5, <1>8, <1>9, <1>10

LEMMA EditAdd ==
  ASSUME NEW F, NEW r, NEW bn, NEW st, NEW pay, FileOK(F, bn, st, pay),
         Len(born) + 1 \in Subs, Len(bn) = Len(born) + 1,
         F.subs[Len(born) + 1] = NoRecord, Added(r) \in Record,
         bn[Len(bn)].quote # None /\ r.plan # "trial" => r.confirm /\ r.ref \in pay
  PROVE  /\ FileOK(Edited("add", r, F), bn, st, pay)
         /\ Kept(F, Edited("add", r, F)) /\ Edited("add", r, F).jobs = F.jobs
<1> DEFINE x == Len(born) + 1
           rec == Added(r)
           f == [F.subs EXCEPT ![x] = rec]
           G == [F EXCEPT !.subs = f]
<1>1. F \in Files /\ F.subs \in [Subs -> Record \cup {NoRecord}] BY DEF FileOK, Files
<1>2. Edited("add", r, F) = G BY <1>1 DEF Edited, Files
<1>3. x \in Subs /\ x = Len(bn) /\ F.subs[x] = NoRecord OBVIOUS
<1>4. rec.plan = r.plan /\ rec.ref = r.ref /\ (r.confirm => rec.verified) /\ rec.status = "active"
  BY DEF Added
<1>5. rec # NoRecord BY DEF NoRecord, Record, None
<1>6. rec \in Record OBVIOUS
<1> HIDE DEF rec, x
<1>7. f \in [Subs -> Record \cup {NoRecord}] BY <1>1, <1>3, <1>6
<1>8. \A s \in Subs : f[s] = IF s = x THEN rec ELSE F.subs[s] BY <1>1
<1> HIDE DEF f
<1>9. G \in Files /\ G.subs = f /\ G.jobs = F.jobs /\ G.log = F.log BY <1>1, <1>7, SubsSet
<1> HIDE DEF G
<1>10. x <= Len(bn) BY <1>3 DEF Subs
<1>11. \A s \in Subs : G.subs[s] # NoRecord => s <= Len(bn) BY <1>8, <1>9, <1>10 DEF FileOK
<1>12. \A s \in Subs : G.subs[s] # NoRecord /\ bn[s].quote # None /\ G.subs[s].plan # "trial"
                           => G.subs[s].verified /\ G.subs[s].ref \in pay
  BY <1>3, <1>4, <1>8, <1>9 DEF FileOK
<1>13. FileOK(G, bn, st, pay) BY <1>9, <1>11, <1>12, FileEdited
<1>14. F.subs[x].status # "cancelled" /\ ~F.subs[x].verified
  BY <1>3, SubscriptionsAssumption DEF NoRecord, None
<1>15. Kept(F, G) BY <1>3, <1>5, <1>8, <1>9, <1>14, SameLog DEF Kept
<1> QED BY <1>2, <1>9, <1>13, <1>15

LEMMA EditQueue ==
  ASSUME NEW F, NEW r, NEW bn, NEW st, NEW pay, FileOK(F, bn, st, pay), Owed(r.sub, bn),
         r.sub \in Subs
  PROVE  /\ FileOK(Edited("queue", r, F), bn, st, pay)
         /\ Kept(F, Edited("queue", r, F))
         /\ \A s \in Subs : Edited("queue", r, F).jobs[s] = IF s = r.sub THEN "queued" ELSE F.jobs[s]
<1> DEFINE f == [F.jobs EXCEPT ![r.sub] = "queued"]
           G == [F EXCEPT !.jobs = f]
<1>1. F \in Files /\ F.jobs \in [Subs -> JobStates] BY DEF FileOK, Files
<1>2. Edited("queue", r, F) = G BY <1>1 DEF Edited, Files
<1>3. f \in [Subs -> JobStates] BY <1>1 DEF JobStates
<1>4. \A s \in Subs : f[s] = IF s = r.sub THEN "queued" ELSE F.jobs[s] BY <1>1
<1> HIDE DEF f
<1>5. G \in Files /\ G.jobs = f /\ G.subs = F.subs /\ G.log = F.log BY <1>1, <1>3 DEF Files
<1> HIDE DEF G
<1>6. FileOK(G, bn, st, pay) BY <1>4, <1>5, SameLog DEF FileOK
<1>7. Kept(F, G) BY <1>5, SameLog DEF Kept
<1> QED BY <1>2, <1>4, <1>5, <1>6, <1>7

LEMMA EditOther ==
  ASSUME NEW F, NEW r, NEW bn, NEW st \in [Subs -> Nat], NEW pay, FileOK(F, bn, st, pay),
         NEW edit \in {"stamp", "email", "record", "draft"}, edit = "draft" => r.quote \in Pilots
  PROVE  /\ FileOK(Edited(edit, r, F), bn, st, pay)
         /\ Kept(F, Edited(edit, r, F)) /\ Edited(edit, r, F).jobs = F.jobs
<1>1. CASE edit \in {"stamp", "email"}
  <2>1. Edited(edit, r, F) = F BY <1>1 DEF Edited
  <2> QED BY <2>1 DEF Kept
<1>2. CASE edit = "draft"
  <2> DEFINE d == F.drafts \cup {r.quote}
             G == [F EXCEPT !.drafts = d]
  <2>1. F \in Files BY DEF FileOK
  <2>2. Edited(edit, r, F) = G BY <1>2, <2>1 DEF Edited, Files
  <2>3. d \in SUBSET Pilots BY <1>2, <2>1 DEF Files
  <2> HIDE DEF d
  <2>4. G \in Files /\ G.jobs = F.jobs /\ G.subs = F.subs /\ G.log = F.log BY <2>1, <2>3 DEF Files
  <2> HIDE DEF G
  <2>5. FileOK(G, bn, st, pay) BY <2>4, SameLog DEF FileOK
  <2> QED BY <2>2, <2>4, <2>5, SameLog DEF Kept
<1>3. CASE edit = "record"
  <2> DEFINE l == Logged(F.log, 0)
             G == [F EXCEPT !.log = l]
  <2>1. F \in Files /\ F.log \in Log BY DEF FileOK, Files, Log
  <2>2. Edited(edit, r, F) = G BY <1>3, <2>1 DEF Edited, Files
  <2>3. G.log = l BY <2>1 DEF Files
  <2>4. 0 \in 0 .. MaxSubs /\ \A s \in Subs : s # 0 BY SubscriptionsAssumption DEF Subs
  <2> HIDE DEF G
  <2>5. l \in Log /\ \A s \in Subs :
           /\ Rows(G, s) <= Rows(F, s)
           /\ Len(G.log) < LogKept => Len(F.log) < LogKept /\ Rows(G, s) = Rows(F, s)
    <3>1. \A s : /\ G.log \in Log
                 /\ Rows(G, s) <= IF 0 = s THEN Rows(F, s) + 1 ELSE Rows(F, s)
                 /\ Len(G.log) < LogKept
                      => /\ Len(F.log) < LogKept
                         /\ Rows(G, s) = IF 0 = s THEN Rows(F, s) + 1 ELSE Rows(F, s)
      BY <2>1, <2>3, <2>4, LoggedIs, Zenon
    <3> QED BY <2>3, <2>4, <3>1
  <2> HIDE DEF l
  <2>6. G \in Files /\ G.jobs = F.jobs /\ G.subs = F.subs BY <2>1, <2>5 DEF Files, Log, G
  <2>7. ASSUME NEW s \in Subs PROVE Rows(G, s) <= st[s]
    <3>1. Rows(F, s) \in Nat /\ Rows(G, s) \in Nat /\ st[s] \in Nat /\ Rows(F, s) <= st[s]
      BY <2>1, <2>3, <2>5, RowsNat DEF FileOK
    <3> QED BY <2>5, <3>1
  <2>8. FileOK(G, bn, st, pay) BY <2>6, <2>7 DEF FileOK
  <2> QED BY <2>2, <2>5, <2>6, <2>8 DEF Kept
<1> QED BY <1>1, <1>2, <1>3

---------------------------------------------------------------------------
\* What a step makes of the request it serves: the record of r with another copy and so on.
Becomes(new, r, sub, copy, todo, delivered) ==
    /\ new \in Requests
    /\ new.op = r.op /\ new.who = r.who /\ new.plan = r.plan /\ new.ref = r.ref
    /\ new.confirm = r.confirm /\ new.quote = r.quote
    /\ new.sub = sub /\ new.copy = copy /\ new.todo = todo /\ new.delivered = delivered

LEMMA Becoming ==
  ASSUME NEW r \in Requests, NEW s \in 0 .. MaxSubs, NEW C \in Files, NEW todo \in Todos, NEW d \in BOOLEAN
  PROVE  /\ Becomes([r EXCEPT !.todo = todo], r, r.sub, r.copy, todo, r.delivered)
         /\ Becomes([[r EXCEPT !.sub = s] EXCEPT !.todo = todo], r, s, r.copy, todo, r.delivered)
         /\ Becomes([[r EXCEPT !.copy = C, !.sub = s] EXCEPT !.todo = todo], r, s, C, todo, r.delivered)
         /\ Becomes([[r EXCEPT !.copy = C, !.delivered = d] EXCEPT !.todo = todo], r, r.sub, C, todo, d)
<1> USE DEF Becomes, Requests
<1>1. Becomes([r EXCEPT !.todo = todo], r, r.sub, r.copy, todo, r.delivered) OBVIOUS
<1>2. Becomes([[r EXCEPT !.sub = s] EXCEPT !.todo = todo], r, s, r.copy, todo, r.delivered) OBVIOUS
<1>3. Becomes([[r EXCEPT !.copy = C, !.sub = s] EXCEPT !.todo = todo], r, s, C, todo, r.delivered)
  OBVIOUS
<1>4. Becomes([[r EXCEPT !.copy = C, !.delivered = d] EXCEPT !.todo = todo], r, r.sub, C, todo, d)
  OBVIOUS
<1> QED BY <1>1, <1>2, <1>3, <1>4

\* thread t went on to rest, or ended
Went(t, sub, copy, rest, delivered) ==
    /\ \A u \in Threads \ {t} : th'[u] = th[u]
    /\ IF rest = <<>> THEN th'[t] = Idle ELSE Becomes(th'[t], th[t], sub, copy, rest, delivered)

LEMMA NoRows == EmptyFile.log = <<>> /\ \A s : Rows(EmptyFile, s) = 0
<1>1. EmptyFile.log = <<>> BY DEF EmptyFile
<1> HIDE DEF EmptyFile
<1>2. \A s : {i \in 1 .. Len(EmptyFile.log) : EmptyFile.log[i] = s} = {} BY <1>1
<1> QED BY <1>1, <1>2, FS_EmptySet DEF Rows

LEMMA EmptyFileOK ==
  ASSUME NEW bn, NEW st \in [Subs -> Nat], NEW pay
  PROVE  FileOK(EmptyFile, bn, st, pay)
<1>1. EmptyFile \in Files BY DEF EmptyFile, Files, JobStates
<1>2. \A s \in Subs : Rows(EmptyFile, s) = 0 /\ EmptyFile.jobs[s] = None /\ EmptyFile.subs[s] = NoRecord
  BY NoRows DEF EmptyFile
<1>3. \A s \in Subs : st[s] >= 0 OBVIOUS
<1> HIDE DEF EmptyFile
<1> QED BY <1>1, <1>2, <1>3 DEF FileOK, None

LEMMA IdleOK ==
  ASSUME NEW bn, NEW st \in [Subs -> Nat], NEW pay
  PROVE  RequestOK(Idle, bn, st, pay) /\ ~HasAdd(Idle.todo)
<1>1. FileOK(EmptyFile, bn, st, pay) BY EmptyFileOK
<1>2. EmptyFile \in Files BY <1>1 DEF FileOK
<1>3. /\ Idle.op = None /\ Idle.who = None /\ Idle.plan = None /\ Idle.ref = None
      /\ Idle.confirm = FALSE /\ Idle.quote = None /\ Idle.sub = 0 /\ Idle.todo = <<>>
      /\ Idle.copy = EmptyFile /\ Idle.delivered = FALSE
  BY DEF Idle
<1>4. <<>> \in Todos /\ 0 \in 0 .. MaxSubs
  <2>1. <<>> \in Todos
    <3>1. <<>> \in Doing(None) BY DEF Doing, None
    <3> QED BY <3>1 DEF Todos
  <2>2. 0 \in 0 .. MaxSubs BY SubscriptionsAssumption
  <2> QED BY <2>1, <2>2
<1>5. Idle \in Requests BY <1>2, <1>4 DEF Idle, Requests
<1>6. <<>> \notin Runs BY Activation, OtherWork DEF Runs
<1> HIDE DEF Idle
<1> QED BY <1>1, <1>3, <1>5, <1>6, Additions DEF RequestOK, None

LEMMA PreviewsStand ==
  ASSUME NEW pv, NEW bn, NEW st, NEW pay, NEW bn2, NEW st2, NEW pay2, PreviewsOK(pv, bn, st),
         bn \in Seq(Birth), Longer(bn, st, pay, bn2, st2, pay2), st \in [Subs -> Nat]
  PROVE  PreviewsOK(pv, bn2, st2)
<1>1. /\ Len(bn) \in Nat /\ Len(bn2) \in Nat /\ Len(bn) <= Len(bn2)
      /\ st2 \in [Subs -> Nat] /\ \A i \in 1 .. Len(bn) : bn2[i] = bn[i]
      /\ \A s \in Subs : st[s] <= st2[s]
  BY DEF Longer
<1>2. \A s \in 1 .. Len(bn) : s \in 1 .. Len(bn2) /\ bn2[s] = bn[s] BY <1>1
<1>3. \A s \in Subs : st[s] > 0 => st2[s] > 0 BY <1>1
<1> QED BY <1>2, <1>3 DEF PreviewsOK

\* No more requests have yet to add than before.
LEMMA RoomStays ==
  ASSUME SubInv, NEW t \in Threads, NEW new, th' = [th EXCEPT ![t] = new], born' = born,
         HasAdd(new.todo) => HasAdd(th[t].todo)
  PROVE  Room'
<1>1. Adding' \subseteq Adding BY DEF Adding, HasAdd, SubInv
<1>2. Adding \subseteq Threads BY DEF Adding
<1>3. IsFiniteSet(Adding) BY <1>2, SubscriptionsAssumption, FS_Subset
<1>4. Cardinality(Adding') <= Cardinality(Adding) /\ IsFiniteSet(Adding') BY <1>1, <1>3, FS_Subset
<1>5. Cardinality(Adding') \in Nat /\ Cardinality(Adding) \in Nat BY <1>3, <1>4, FS_CardinalityType
<1>6. Len(born) \in Nat /\ Len(born) + Cardinality(Adding) <= MaxSubs /\ MaxSubs \in Nat
  BY SubscriptionsAssumption DEF SubInv, Room
<1>7. Len(born) + Cardinality(Adding') <= MaxSubs BY <1>4, <1>5, <1>6
<1> QED BY <1>7 DEF Room

LEMMA RoomToAdd ==
  ASSUME SubInv, NEW t \in Threads, NEW new, th' = [th EXCEPT ![t] = new],
         HasAdd(th[t].todo), ~HasAdd(new.todo), Len(born') = Len(born) + 1
  PROVE  Room' /\ Len(born) + 1 \in Subs
<1>1. Adding' \subseteq Adding \ {t} /\ t \in Adding BY DEF Adding, HasAdd, SubInv
<1>2. Adding \subseteq Threads BY DEF Adding
<1>3. IsFiniteSet(Adding) BY <1>2, SubscriptionsAssumption, FS_Subset
<1>4. IsFiniteSet(Adding \ {t}) /\ Cardinality(Adding \ {t}) = Cardinality(Adding) - 1
  BY <1>1, <1>3, FS_RemoveElement
<1>5. Cardinality(Adding') <= Cardinality(Adding \ {t}) /\ IsFiniteSet(Adding') BY <1>1, <1>4, FS_Subset
<1>6. Cardinality(Adding') \in Nat /\ Cardinality(Adding) \in Nat BY <1>3, <1>5, FS_CardinalityType
<1>7. Len(born) \in Nat /\ Len(born) + Cardinality(Adding) <= MaxSubs /\ MaxSubs \in Nat
  BY SubscriptionsAssumption DEF SubInv, Room
<1>8. Len(born') + Cardinality(Adding') <= MaxSubs BY <1>4, <1>5, <1>6, <1>7
<1>9. Len(born) + 1 \in Subs BY <1>4, <1>5, <1>6, <1>7 DEF Subs
<1> QED BY <1>8, <1>9 DEF Room

\* A step that serves thread t.
LEMMA Assembled ==
  ASSUME SubInv, NEW t \in Threads, NEW new, th' = [th EXCEPT ![t] = new],
         RequestOK(new, born', sent', payments'), FileOK(file', born', sent', payments'),
         Longer(born, sent, payments, born', sent', payments'), payments' \subseteq Refs,
         PreviewsOK(previews', born', sent'), Room',
         \A s \in Subs : sent'[s] > 0 => Owed(s, born'),
         expired' \subseteq Subs, byId' \subseteq Subs, alone' \in BOOLEAN, breaks' \in Nat,
         heard' \in [Subs -> Nat]
  PROVE  SubInv'
<1>1. born' \in Seq(Birth) /\ sent' \in [Subs -> Nat] BY DEF Longer
<1>2. new \in Requests BY DEF RequestOK
<1>3. th' \in [Threads -> Requests] BY <1>2 DEF SubInv
<1>4. \A u \in Threads : th'[u] = IF u = t THEN new ELSE th[u] BY DEF SubInv
<1>5. ASSUME NEW u \in Threads PROVE RequestOK(th'[u], born', sent', payments')
  <2>1. CASE u = t BY <1>4, <2>1
  <2>2. CASE u # t
    <3>1. RequestOK(th[u], born, sent, payments) /\ born \in Seq(Birth) /\ sent \in [Subs -> Nat]
      BY DEF SubInv
    <3>2. RequestOK(th[u], born', sent', payments') BY <3>1, RequestStands
    <3> QED BY <1>4, <2>2, <3>2
  <2> QED BY <2>1, <2>2
<1>6. SubInv' <=>
        (/\ born' \in Seq(Birth) /\ sent' \in [Subs -> Nat] /\ heard' \in [Subs -> Nat]
         /\ payments' \subseteq Refs
         /\ expired' \subseteq Subs /\ byId' \subseteq Subs /\ alone' \in BOOLEAN /\ breaks' \in Nat
         /\ Room'
         /\ FileOK(file', born', sent', payments')
         /\ th' \in [Threads -> Requests]
         /\ \A u \in Threads : RequestOK(th'[u], born', sent', payments')
         /\ \A s \in Subs : sent'[s] > 0 => Owed(s, born')
         /\ PreviewsOK(previews', born', sent'))
  BY DEF SubInv
<1> QED BY <1>1, <1>3, <1>5, <1>6

LEMMA SameLength ==
  ASSUME SubInv
  PROVE  Longer(born, sent, payments, born, sent, payments)
BY DEF SubInv, Longer

\* A step that creates, sends and receives nothing.
LEMMA Quietly ==
  ASSUME SubInv, NEW t \in Threads, NEW new, th' = [th EXCEPT ![t] = new],
         born' = born, sent' = sent, heard' = heard, world' = world, breaks' \in Nat, byId' \subseteq Subs, alone' \in BOOLEAN,
         RequestOK(new, born, sent, payments), FileOK(file', born, sent, payments),
         PreviewsOK(previews', born, sent), Room'
  PROVE  SubInv'
<1>1. payments' = payments /\ expired' = expired BY DEF world
<1>2. Longer(born, sent, payments, born', sent', payments') BY <1>1, SameLength
<1>3. payments' \subseteq Refs /\ expired' \subseteq Subs /\ \A s \in Subs : sent'[s] > 0 => Owed(s, born')
  BY <1>1 DEF SubInv
<1>4. /\ RequestOK(new, born', sent', payments') /\ FileOK(file', born', sent', payments')
      /\ PreviewsOK(previews', born', sent') /\ heard' \in [Subs -> Nat]
  BY <1>1 DEF SubInv
<1> QED BY <1>2, <1>3, <1>4, Assembled

\* What SubInv says of a busy thread.
LEMMA Serving ==
  ASSUME SubInv, NEW t \in Threads, Busy(t)
  PROVE  /\ th[t] \in Requests /\ th[t].op \in Ops /\ th[t].todo \in Doing(th[t].op) /\ th[t].todo # <<>>
         /\ th[t].who \in Customers /\ th[t].plan \in Plans /\ th[t].sub \in 0 .. MaxSubs
         /\ RequestOK(th[t], born, sent, payments) /\ FileOK(th[t].copy, born, sent, payments)
         /\ th[t].copy \in Files /\ file \in Files /\ FileOK(file, born, sent, payments)
         /\ born \in Seq(Birth) /\ sent \in [Subs -> Nat] /\ payments \subseteq Refs
         /\ heard \in [Subs -> Nat]
         /\ PreviewsOK(previews, born, sent) /\ byId \subseteq Subs /\ breaks \in Nat
         /\ RequestOK(Idle, born, sent, payments) /\ ~HasAdd(Idle.todo)
<1>1. RequestOK(th[t], born, sent, payments) /\ FileOK(file, born, sent, payments) BY DEF SubInv
<1>2. sent \in [Subs -> Nat] BY DEF SubInv
<1>3. RequestOK(Idle, born, sent, payments) /\ ~HasAdd(Idle.todo) BY <1>2, IdleOK
<1>4. th[t].sub \in 0 .. MaxSubs BY <1>1 DEF RequestOK, Requests
<1> QED BY <1>1, <1>2, <1>3, <1>4 DEF SubInv, RequestOK, FileOK, Busy

LEMMA Ahead1 ==
  ASSUME NEW op \in Ops, NEW todo \in Doing(op)
  PROVE  todo \in Todos
BY DEF Todos

LEMMA TodoNames ==
  <<>> \notin Runs /\ <<>> \notin Ended /\ <<>> \notin Unlaunched
BY Activation, OtherWork DEF Runs, Ended, Unlaunched

---------------------------------------------------------------------------
\* The steps.
LEMMA SaveStep ==
  ASSUME SubInv, NEW t \in Threads, Save(t), alone' \in BOOLEAN, UNCHANGED breaks
  PROVE  SubInv' /\ Went(t, th[t].sub, th[t].copy, Left(th[t].todo), th[t].delivered)
<1> DEFINE r == th[t]
           rest == Tail(r.todo)
           new == IF rest = <<>> THEN Idle ELSE [r EXCEPT !.todo = rest]
<1>1. Busy(t) /\ Ahead(r.todo) = "save" /\ rest = Left(r.todo) BY DEF Save, At, Ahead, Left
<1>2. th' = [th EXCEPT ![t] = new] BY DEF Save, Continue, Rest
<1>3. /\ RequestOK(new, born, sent, payments) /\ (HasAdd(new.todo) => HasAdd(r.todo))
      /\ IF rest = <<>> THEN new = Idle ELSE Becomes(new, r, r.sub, r.copy, rest, r.delivered)
  <2>1. CASE rest = <<>>
    <3>1. new = Idle BY <2>1
    <3> HIDE DEF new, rest
    <3> QED BY <1>1, <2>1, <3>1, Serving
  <2>2. CASE rest # <<>>
    <3>1. rest \in Doing(r.op) BY <1>1, <2>2, Serving, AfterSave
    <3>2. rest \in Todos /\ r \in Requests BY <1>1, <3>1, Serving, Ahead1
    <3>3. Becomes(new, r, r.sub, r.copy, rest, r.delivered)
      <4> HIDE DEF r, rest
      <4>1. new = [r EXCEPT !.todo = rest] BY <2>2
      <4>2. Becomes([r EXCEPT !.todo = rest], r, r.sub, r.copy, rest, r.delivered)
        BY <3>2, Becoming DEF Requests
      <4> QED BY <4>1, <4>2
    <3> HIDE DEF new
    <3>4. RequestOK(r, born, sent, payments) BY <1>1, Serving
    <3>5. /\ r.todo \in Doing(r.op) /\ r.op \in Ops /\ r.todo # <<>> /\ r.who \in Customers
          /\ r.plan \in Plans
      BY <1>1, Serving
    <3>6. /\ r.op = "activate" => r.todo \notin Unmade /\ rest \notin Unmade
          /\ rest \in Runs <=> r.todo \in Runs
          /\ r.op = "pending" => r.todo # P1 /\ rest # P1
          /\ r.todo \in Ended /\ rest # <<>> => rest \in Ended
          /\ HasAdd(rest) => HasAdd(r.todo)
      BY <1>1, <3>5, AfterSave
    <3> HIDE DEF r, rest
    <3>7. RequestOK(new, born, sent, payments)
      BY <2>2, <3>1, <3>3, <3>4, <3>5, <3>6 DEF RequestOK, Becomes
    <3>8. new.todo = rest BY <3>3 DEF Becomes
    <3> QED BY <2>2, <3>3, <3>6, <3>7, <3>8
  <2> QED BY <2>1, <2>2
<1>4. FileOK(file', born, sent, payments) /\ PreviewsOK(previews', born, sent)
  BY <1>1, Serving DEF Save, queues
<1>5. born' = born /\ sent' = sent /\ heard' = heard /\ world' = world /\ breaks' = breaks /\ byId' = byId
  BY DEF Save
<1>6. breaks' \in Nat /\ byId' \subseteq Subs BY <1>5 DEF SubInv
<1> HIDE DEF r, new, rest
<1>7. Room' BY <1>2, <1>3, <1>5, RoomStays DEF r
<1>8. SubInv' BY <1>2, <1>3, <1>4, <1>5, <1>6, <1>7, Quietly
<1>9. th'[t] = new /\ \A u \in Threads \ {t} : th'[u] = th[u] BY <1>2 DEF SubInv
<1> QED BY <1>1, <1>3, <1>8, <1>9 DEF Went, r

\* A request of an operation whose record is new otherwise only in copy and place.
LEMMA Advanced ==
  ASSUME NEW r, NEW new, NEW sub, NEW C, NEW rest, NEW d, NEW bn, NEW st, NEW pay,
         RequestOK(r, bn, st, pay), r.todo # <<>>, Becomes(new, r, sub, C, rest, d),
         rest \in Doing(r.op), FileOK(C, bn, st, pay),
         r.op = "activate" /\ rest \notin Unmade
           => sub \in 1 .. Len(bn) /\ bn[sub].quote = r.quote /\ bn[sub].earned,
         rest \in Runs => Owed(sub, bn),
         r.op = "run" => sub \in Subs,
         r.op = "pending" /\ rest # P1 => sub \in Subs,
         d => rest \in Ended /\ sub \in Subs /\ st[sub] > 0
  PROVE  RequestOK(new, bn, st, pay)
BY DEF RequestOK, Becomes

LEMMA AcceptedAdd ==
  ASSUME SubInv, NEW t \in Threads, Busy(t), Ahead(th[t].todo) = "add", Accepts("add", th[t], file)
  PROVE  LET r == th[t]
             e == [who |-> r.who, quote |-> r.quote, earned |-> r.plan = "trial" \/ r.ref \in payments]
         IN /\ e \in Birth /\ Added(r) \in Record
            /\ r.quote # None => r.op = "activate" /\ e.earned /\ (r.plan # "trial" => r.confirm /\ r.ref \in payments)
<1> DEFINE r == th[t]
<1>1. r \in Requests /\ r.op \in Ops /\ r.todo \in Doing(r.op) /\ r.who \in Customers
      /\ r.plan \in Plans /\ RequestOK(r, born, sent, payments)
  BY Serving
<1>2. r.op \in {"add", "convert", "activate"} BY <1>1, AfterEdit DEF LoadEdits
<1>3. r.quote \in Pilots \cup {None} /\ r.ref \in Refs \cup {None} /\ r.confirm \in BOOLEAN
  BY <1>1 DEF Requests
<1>4. r.quote # None => r.op = "activate" BY <1>1, <1>2 DEF RequestOK
<1>5. r.plan # "trial" /\ r.confirm => r.ref \in payments BY DEF Accepts
<1>6. r.op = "activate" /\ r.plan # "trial" => r.confirm BY <1>1 DEF RequestOK
<1> HIDE DEF r
<1>7. Added(r) \in Record BY <1>1, <1>3 DEF Added, Record
<1>8. [who |-> r.who, quote |-> r.quote, earned |-> r.plan = "trial" \/ r.ref \in payments] \in Birth
  BY <1>1, <1>3 DEF Birth
<1> QED BY <1>1, <1>4, <1>5, <1>6, <1>7, <1>8 DEF r

LEMMA OneLonger ==
  ASSUME SubInv, NEW e \in Birth
  PROVE  /\ Len(Append(born, e)) = Len(born) + 1 /\ Len(born) \in Nat
         /\ Append(born, e)[Len(born) + 1] = e
         /\ Longer(born, sent, payments, Append(born, e), sent, payments)
BY DEF SubInv, Longer

\* A request whose load is refused, and any other that ends.
LEMMA EndStep ==
  ASSUME SubInv, NEW t \in Threads, th' = [th EXCEPT ![t] = Idle], UNCHANGED <<queues, file, world, born, sent, heard, byId>>,
         breaks' \in Nat, alone' \in BOOLEAN
  PROVE  SubInv' /\ th'[t] = Idle /\ \A u \in Threads \ {t} : th'[u] = th[u]
<1>1. sent \in [Subs -> Nat] /\ byId \subseteq Subs /\ FileOK(file, born, sent, payments)
      /\ PreviewsOK(previews, born, sent)
  BY DEF SubInv
<1>2. RequestOK(Idle, born, sent, payments) /\ ~HasAdd(Idle.todo) BY <1>1, IdleOK
<1>3. Room' BY <1>2, RoomStays
<1>4. FileOK(file', born, sent, payments) /\ PreviewsOK(previews', born, sent) /\ byId' \subseteq Subs
  BY <1>1 DEF queues
<1>5. SubInv' BY <1>2, <1>3, <1>4, Quietly
<1> QED BY <1>5 DEF SubInv

LEMMA AddStep ==
  ASSUME SubInv, NEW t \in Threads, Busy(t), Ahead(th[t].todo) = "add", Accepts("add", th[t], file),
         th' = [th EXCEPT ![t] = [[th[t] EXCEPT !.copy = Edited("add", th[t], file), !.sub = Len(born) + 1]
                                    EXCEPT !.todo = Left(th[t].todo)]],
         born' = Append(born, [who |-> th[t].who, quote |-> th[t].quote,
                               earned |-> th[t].plan = "trial" \/ th[t].ref \in payments]),
         UNCHANGED <<queues, file, world, sent, heard, byId, breaks>>, alone' \in BOOLEAN
  PROVE  /\ SubInv'
         /\ Len(born) + 1 \in Subs /\ file.subs[Len(born) + 1] = NoRecord /\ sent[Len(born) + 1] = 0
         /\ Kept(file, Edited("add", th[t], file)) /\ Edited("add", th[t], file).jobs = file.jobs
         /\ Went(t, Len(born) + 1, Edited("add", th[t], file), Left(th[t].todo), th[t].delivered)
<1> DEFINE r == th[t]
           rest == Left(r.todo)
           x == Len(born) + 1
           C == Edited("add", r, file)
           e == [who |-> r.who, quote |-> r.quote, earned |-> r.plan = "trial" \/ r.ref \in payments]
           new == [[r EXCEPT !.copy = C, !.sub = x] EXCEPT !.todo = rest]
<1>1. /\ r \in Requests /\ r.op \in Ops /\ r.todo \in Doing(r.op) /\ r.todo # <<>>
      /\ RequestOK(r, born, sent, payments) /\ FileOK(file, born, sent, payments)
      /\ born \in Seq(Birth) /\ sent \in [Subs -> Nat] /\ payments \subseteq Refs
      /\ PreviewsOK(previews, born, sent) /\ byId \subseteq Subs /\ breaks \in Nat
  BY Serving
<1>2. /\ rest \in Doing(r.op) /\ r.op \notin {"run", "pending"} /\ rest \notin Runs /\ r.todo \notin Ended
      /\ HasAdd(r.todo) /\ ~HasAdd(rest)
  BY <1>1, AfterEdit DEF LoadEdits
<1>3. /\ e \in Birth /\ Added(r) \in Record
      /\ r.quote # None => r.op = "activate" /\ e.earned /\ (r.plan # "trial" => r.confirm /\ r.ref \in payments)
  BY AcceptedAdd
<1>4. /\ Len(born') = x /\ Len(born) \in Nat /\ born'[x] = e
      /\ Longer(born, sent, payments, born', sent, payments)
  <2> HIDE DEF e
  <2>1. born' = Append(born, e) BY DEF e
  <2> QED BY <1>3, <2>1, OneLonger
<1>5. e.quote = r.quote BY DEF e
<1>6. th' = [th EXCEPT ![t] = new] OBVIOUS
<1>7. x \in Subs
  <2> DEFINE nobody == Idle
  <2>1. Adding \subseteq Threads /\ t \in Adding BY <1>2 DEF Adding, HasAdd
  <2>2. IsFiniteSet(Adding) BY <2>1, SubscriptionsAssumption, FS_Subset
  <2>3. Cardinality(Adding) \in Nat /\ Cardinality(Adding) # 0
    BY <2>1, <2>2, FS_CardinalityType, FS_EmptySet
  <2>4. Len(born) + Cardinality(Adding) <= MaxSubs /\ MaxSubs \in Nat
    BY SubscriptionsAssumption DEF SubInv, Room
  <2> QED BY <1>4, <2>3, <2>4 DEF Subs
<1>8. file.subs[x] = NoRecord
  <2>1. file.subs[x] # NoRecord => x <= Len(born) BY <1>1, <1>7 DEF FileOK
  <2> QED BY <1>4, <2>1
<1>9. sent[x] = 0
  <2>1. sent[x] \in Nat BY <1>1, <1>7
  <2>2. sent[x] > 0 => Owed(x, born) BY <1>7 DEF SubInv
  <2>3. ~Owed(x, born) BY <1>4 DEF Owed
  <2> QED BY <2>1, <2>2, <2>3
<1>10. FileOK(file, born', sent, payments) BY <1>1, <1>4, FileStands
<1>11. FileOK(C, born', sent, payments) /\ Kept(file, C) /\ C.jobs = file.jobs
  <2>1. born'[Len(born')].quote # None /\ r.plan # "trial" => r.confirm /\ r.ref \in payments
    BY <1>3, <1>4, <1>5
  <2> HIDE DEF r
  <2> QED BY <1>3, <1>4, <1>7, <1>8, <1>10, <2>1, EditAdd
<1>12. RequestOK(r, born', sent, payments) BY <1>1, <1>4, RequestStands
<1>13. C \in Files /\ x \in 0 .. MaxSubs /\ rest \in Todos
  BY <1>1, <1>2, <1>7, <1>11, Ahead1, SubscriptionsAssumption DEF FileOK, Subs
<1> HIDE DEF r, rest, C, e
<1>14. Becomes(new, r, x, C, rest, r.delivered) BY <1>1, <1>13, Becoming
<1>15. ~r.delivered BY <1>1, <1>2 DEF RequestOK
<1>16. r.op = "activate" => x \in 1 .. Len(born') /\ born'[x].quote = r.quote /\ born'[x].earned
  <2>1. r.op = "activate" => r.quote # None BY <1>1, SubscriptionsAssumption DEF RequestOK
  <2> QED BY <1>3, <1>4, <1>5, <2>1
<1> HIDE DEF x
<1>17. RequestOK(new, born', sent, payments)
  <2>1. r.op # "run" /\ r.op # "pending" /\ rest \notin Runs /\ rest \in Doing(r.op) /\ r.todo # <<>>
    BY <1>1, <1>2
  <2>2. r.op = "activate" /\ rest \notin Unmade
           => x \in 1 .. Len(born') /\ born'[x].quote = r.quote /\ born'[x].earned
    BY <1>16
  <2>3. FileOK(C, born', sent, payments) BY <1>11
  <2> HIDE DEF new
  <2> QED BY <1>12, <1>14, <1>15, <2>1, <2>2, <2>3, Advanced
<1> HIDE DEF new
<1>18. ~HasAdd(new.todo) BY <1>2, <1>14 DEF Becomes
<1>19. Room' BY <1>2, <1>4, <1>6, <1>18, RoomToAdd DEF r, x
<1>20. sent' = sent /\ payments' = payments /\ expired' = expired /\ file' = file /\ previews' = previews
       /\ byId' = byId /\ breaks' = breaks
  BY DEF world, queues
<1>21. \A s \in Subs : sent'[s] > 0 => Owed(s, born')
  <2>1. \A s \in Subs : sent[s] > 0 => Owed(s, born) BY DEF SubInv
  <2>2. \A i \in 1 .. Len(born) : born'[i] = born[i] BY <1>4 DEF Longer
  <2>3. \A i \in 1 .. Len(born) : i \in 1 .. Len(born') BY <1>4 DEF x
  <2> QED BY <1>20, <2>1, <2>2, <2>3 DEF Owed
<1>22. PreviewsOK(previews, born', sent) BY <1>1, <1>4, PreviewsStand
<1>23. expired \subseteq Subs BY DEF SubInv
<1>24. SubInv'
  <2>1. /\ RequestOK(new, born', sent', payments') /\ FileOK(file', born', sent', payments')
        /\ Longer(born, sent, payments, born', sent', payments') /\ payments' \subseteq Refs
        /\ PreviewsOK(previews', born', sent')
    BY <1>1, <1>4, <1>10, <1>17, <1>20, <1>22
  <2>2. expired' \subseteq Subs /\ byId' \subseteq Subs /\ alone' \in BOOLEAN /\ breaks' \in Nat
        /\ heard' \in [Subs -> Nat]
    BY <1>1, <1>20, <1>23 DEF SubInv
  <2> QED BY <1>6, <1>19, <1>21, <2>1, <2>2, Assembled
<1>25. th'[t] = new /\ \A u \in Threads \ {t} : th'[u] = th[u] BY <1>6 DEF SubInv
<1>26. rest # <<>> BY <1>1, AfterEdit DEF rest, LoadEdits, r
<1>27. Went(t, x, C, rest, r.delivered) BY <1>14, <1>25, <1>26 DEF Went, r
<1> QED BY <1>7, <1>8, <1>9, <1>11, <1>24, <1>27 DEF r, x, C, rest

\* A step that goes on to rest with another copy.
LEMMA GoOn ==
  ASSUME SubInv, NEW t \in Threads, Busy(t), NEW new, NEW sub, NEW C, NEW d,
         th' = [th EXCEPT ![t] = new], Becomes(new, th[t], sub, C, Left(th[t].todo), d),
         RequestOK(new, born, sent, payments), Left(th[t].todo) # <<>>,
         HasAdd(Left(th[t].todo)) => HasAdd(th[t].todo),
         UNCHANGED <<file, world, born, sent, heard, byId, breaks>>, alone' \in BOOLEAN,
         PreviewsOK(previews', born, sent)
  PROVE  SubInv' /\ Went(t, sub, C, Left(th[t].todo), d)
<1>1. new.todo = Left(th[t].todo) BY DEF Becomes
<1>2. Room' BY <1>1, RoomStays
<1>3. FileOK(file', born, sent, payments) /\ byId' \subseteq Subs /\ breaks' \in Nat BY DEF SubInv
<1>4. SubInv' BY <1>2, <1>3, Quietly
<1>5. th'[t] = new /\ \A u \in Threads \ {t} : th'[u] = th[u] BY DEF SubInv
<1> QED BY <1>4, <1>5 DEF Went

LEMMA EditResult ==
  ASSUME SubInv, NEW t \in Threads, Busy(t), NEW edit \in LoadEdits, edit # "add",
         Ahead(th[t].todo) = edit, Accepts(edit, th[t], file)
  PROVE  LET C == Edited(edit, th[t], file)
         IN /\ FileOK(C, born, sent, payments) /\ Kept(file, C)
            /\ \A s \in Subs : C.jobs[s] = IF edit = "queue" /\ s = th[t].sub THEN "queued" ELSE file.jobs[s]
            /\ edit = "cancel" => \A s \in Subs : file.subs[s].who = th[t].who /\ file.subs[s].status = "active"
                  => C.subs[s].status = "cancelled"
            /\ edit = "verify" => C.subs[Last(ActivePaid(C, th[t].who))].verified
<1> DEFINE r == th[t]
           C == Edited(edit, r, file)
<1>1. /\ r \in Requests /\ r.op \in Ops /\ r.todo \in Doing(r.op) /\ r.todo # <<>> /\ r.who \in Customers
      /\ RequestOK(r, born, sent, payments) /\ FileOK(file, born, sent, payments) /\ payments \subseteq Refs
  BY Serving
<1>2. /\ edit = "queue" => r.op = "activate"
      /\ edit = "draft" => r.op = "draft"
      /\ r.op = "activate" => r.todo \notin Unmade
  BY <1>1, AfterEdit
<1>3. sent \in [Subs -> Nat] /\ (edit = "draft" => r.quote \in Pilots) BY <1>1, <1>2 DEF RequestOK, SubInv
<1>4. edit = "queue" => Owed(r.sub, born) /\ r.sub \in Subs
  <2> SUFFICES ASSUME edit = "queue" PROVE Owed(r.sub, born) /\ r.sub \in Subs OBVIOUS
  <2>1. /\ r.op = "activate" /\ r.sub \in 1 .. Len(born) /\ born[r.sub].quote = r.quote
        /\ born[r.sub].earned /\ r.quote \in Pilots /\ r.sub \in 0 .. MaxSubs
    BY <1>1, <1>2 DEF RequestOK, Requests
  <2>2. Len(born) \in Nat BY DEF SubInv
  <2> QED BY <2>1, <2>2, SubscriptionsAssumption DEF Owed, Subs
<1> HIDE DEF r
<1>5. CASE edit = "convert" BY <1>1, <1>5, EditConvert DEF r
<1>6. CASE edit = "verify" BY <1>1, <1>6, EditVerify DEF r
<1>7. CASE edit = "cancel" BY <1>1, <1>7, EditCancel DEF r
<1>8. CASE edit = "queue"
  <2>1. FileOK(file, born, sent, payments) /\ Owed(r.sub, born) /\ r.sub \in Subs BY <1>1, <1>4, <1>8
  <2>2. /\ FileOK(Edited("queue", r, file), born, sent, payments)
        /\ Kept(file, Edited("queue", r, file))
        /\ \A s \in Subs : Edited("queue", r, file).jobs[s] = IF s = r.sub THEN "queued" ELSE file.jobs[s]
    BY <2>1, EditQueue
  <2> QED BY <1>8, <2>2 DEF r
<1>9. CASE edit \in {"stamp", "email", "record", "draft"} BY <1>1, <1>3, <1>9, EditOther DEF r
<1> QED BY <1>5, <1>6, <1>7, <1>8, <1>9 DEF LoadEdits

LEMMA EditStep ==
  ASSUME SubInv, NEW t \in Threads, Busy(t), NEW edit \in LoadEdits, edit # "add",
         Ahead(th[t].todo) = edit, Accepts(edit, th[t], file),
         th' = [th EXCEPT ![t] = [[th[t] EXCEPT !.copy = Edited(edit, th[t], file), !.sub = th[t].sub]
                                    EXCEPT !.todo = Left(th[t].todo)]],
         UNCHANGED <<queues, file, world, born, sent, heard, byId, breaks>>, alone' \in BOOLEAN
  PROVE  SubInv' /\ Went(t, th[t].sub, Edited(edit, th[t], file), Left(th[t].todo), th[t].delivered)
<1> DEFINE r == th[t]
           rest == Left(r.todo)
           C == Edited(edit, r, file)
           new == [[r EXCEPT !.copy = C, !.sub = r.sub] EXCEPT !.todo = rest]
<1>1. /\ r \in Requests /\ r.op \in Ops /\ r.todo \in Doing(r.op) /\ r.todo # <<>>
      /\ RequestOK(r, born, sent, payments) /\ r.sub \in 0 .. MaxSubs /\ PreviewsOK(previews, born, sent)
  BY Serving
<1>2. /\ rest \in Doing(r.op) /\ r.op \notin {"run", "pending"} /\ rest \notin Runs /\ r.todo \notin Ended
      /\ (HasAdd(rest) => HasAdd(r.todo)) /\ rest # <<>> /\ (r.op = "activate" => r.todo \notin Unmade)
  BY <1>1, AfterEdit
<1>3. FileOK(C, born, sent, payments) BY EditResult
<1>4. th' = [th EXCEPT ![t] = new] OBVIOUS
<1>5. C \in Files /\ rest \in Todos BY <1>1, <1>2, <1>3, Ahead1 DEF FileOK
<1> HIDE DEF r, rest, C
<1>6. Becomes(new, r, r.sub, C, rest, r.delivered) BY <1>1, <1>5, Becoming
<1>7. ~r.delivered BY <1>1, <1>2 DEF RequestOK
<1>8. r.op = "activate" /\ rest \notin Unmade
           => r.sub \in 1 .. Len(born) /\ born[r.sub].quote = r.quote /\ born[r.sub].earned
  BY <1>1, <1>2 DEF RequestOK
<1>9. r.op # "run" /\ r.op # "pending" /\ rest \notin Runs /\ rest \in Doing(r.op) /\ r.todo # <<>>
  BY <1>1, <1>2
<1> HIDE DEF new
<1>10. RequestOK(new, born, sent, payments) BY <1>1, <1>3, <1>6, <1>7, <1>8, <1>9, Advanced
<1>11. PreviewsOK(previews', born, sent) BY <1>1 DEF queues
<1> QED BY <1>2, <1>4, <1>6, <1>10, <1>11, GoOn DEF r, rest, C

\* One step of LoadAndEdit: refused, an addition, or another edit.
LEMMA LoadCases ==
  ASSUME SubInv, NEW t \in Threads, LoadAndEdit(t)
  PROVE  /\ Busy(t) /\ UNCHANGED <<queues, file, world, sent, heard, byId, acked, requests>>
         /\ Ahead(th[t].todo) \in LoadEdits
         /\ \/ th' = [th EXCEPT ![t] = Idle] /\ born' = born
            \/ /\ Ahead(th[t].todo) = "add" /\ Accepts("add", th[t], file)
               /\ th' = [th EXCEPT ![t] = [[th[t] EXCEPT !.copy = Edited("add", th[t], file),
                                                         !.sub = Len(born) + 1]
                                             EXCEPT !.todo = Left(th[t].todo)]]
               /\ born' = Append(born, [who |-> th[t].who, quote |-> th[t].quote,
                                        earned |-> th[t].plan = "trial" \/ th[t].ref \in payments])
            \/ \E edit \in LoadEdits \ {"add"} :
               /\ Ahead(th[t].todo) = edit /\ Accepts(edit, th[t], file) /\ born' = born
               /\ th' = [th EXCEPT ![t] = [[th[t] EXCEPT !.copy = Edited(edit, th[t], file),
                                                         !.sub = th[t].sub]
                                             EXCEPT !.todo = Left(th[t].todo)]]
<1> DEFINE r == th[t]
<1>1. PICK edit \in LoadEdits :
        LET ok == Accepts(edit, r, file)
            s == IF edit = "add" THEN Len(born) + 1 ELSE r.sub
        IN /\ At(t, edit)
           /\ \/ ok  /\ Continue(t, [r EXCEPT !.copy = Edited(edit, r, file), !.sub = s], Rest(t))
              \/ ~ok /\ Continue(t, r, <<>>)
           /\ born' = IF ok /\ edit = "add"
                      THEN Append(born, [who |-> r.who, quote |-> r.quote,
                                         earned |-> r.plan = "trial" \/ r.ref \in payments])
                      ELSE born
           /\ UNCHANGED <<queues, file, world, sent, heard, byId, acked, requests>>
  BY DEF LoadAndEdit
<1>2. Busy(t) /\ Ahead(r.todo) = edit BY <1>1 DEF At, Ahead
<1>3. Left(r.todo) # <<>> /\ Rest(t) = Left(r.todo) BY <1>2, Serving, AfterEdit DEF Rest, Left
<1>4. UNCHANGED <<queues, file, world, sent, heard, byId, acked, requests>> BY <1>1
<1>5. CASE ~Accepts(edit, r, file)
  <2>1. th' = [th EXCEPT ![t] = Idle] /\ born' = born BY <1>1, <1>5 DEF Continue
  <2> QED BY <1>2, <1>4, <2>1
<1>6. CASE Accepts(edit, r, file) /\ edit = "add"
  <2>1. th' = [th EXCEPT ![t] = [[r EXCEPT !.copy = Edited("add", r, file), !.sub = Len(born) + 1]
                                   EXCEPT !.todo = Left(r.todo)]]
    BY <1>1, <1>3, <1>6 DEF Continue
  <2>2. born' = Append(born, [who |-> r.who, quote |-> r.quote,
                              earned |-> r.plan = "trial" \/ r.ref \in payments])
    BY <1>1, <1>6
  <2> QED BY <1>2, <1>4, <1>6, <2>1, <2>2
<1>7. CASE Accepts(edit, r, file) /\ edit # "add"
  <2>1. th' = [th EXCEPT ![t] = [[r EXCEPT !.copy = Edited(edit, r, file), !.sub = r.sub]
                                   EXCEPT !.todo = Left(r.todo)]]
    BY <1>1, <1>3, <1>7 DEF Continue
  <2>2. born' = born /\ edit \in LoadEdits \ {"add"} BY <1>1, <1>7
  <2> QED BY <1>2, <1>4, <1>7, <2>1, <2>2
<1> QED BY <1>5, <1>6, <1>7

LEMMA LoadStep ==
  ASSUME SubInv, NEW t \in Threads, LoadAndEdit(t), alone' \in BOOLEAN, UNCHANGED breaks
  PROVE  SubInv'
<1>1. Busy(t) /\ UNCHANGED <<queues, file, world, sent, heard, byId, acked, requests>> BY LoadCases
<1>2. CASE th' = [th EXCEPT ![t] = Idle] /\ born' = born
  <2>1. breaks' \in Nat BY DEF SubInv
  <2> QED BY <1>1, <1>2, <2>1, EndStep
<1>3. CASE /\ Ahead(th[t].todo) = "add" /\ Accepts("add", th[t], file)
           /\ th' = [th EXCEPT ![t] = [[th[t] EXCEPT !.copy = Edited("add", th[t], file),
                                                     !.sub = Len(born) + 1]
                                         EXCEPT !.todo = Left(th[t].todo)]]
           /\ born' = Append(born, [who |-> th[t].who, quote |-> th[t].quote,
                                    earned |-> th[t].plan = "trial" \/ th[t].ref \in payments])
  BY <1>1, <1>3, AddStep
<1>4. ASSUME NEW edit \in LoadEdits \ {"add"},
             Ahead(th[t].todo) = edit, Accepts(edit, th[t], file), born' = born,
             th' = [th EXCEPT ![t] = [[th[t] EXCEPT !.copy = Edited(edit, th[t], file),
                                                    !.sub = th[t].sub]
                                        EXCEPT !.todo = Left(th[t].todo)]]
      PROVE  SubInv'
  BY <1>1, <1>4, EditStep
<1> QED BY <1>2, <1>3, <1>4, LoadCases

---------------------------------------------------------------------------
\* What Start puts in front of the rest.
LEMMA Glued ==
  ASSUME NEW S, NEW a \in Seq(S), NEW b \in Seq(S), NEW c \in Seq(S), Len(c) = Len(a) + Len(b),
         \A i \in 1..Len(a) : c[i] = a[i], \A i \in 1..Len(b) : c[Len(a) + i] = b[i]
  PROVE  a \o b = c
<1>1. a \o b \in Seq(S) BY ConcatProperties
<1>2. Len(a \o b) = Len(a) + Len(b) BY ConcatProperties
<1>3. Len(a) \in Nat /\ Len(b) \in Nat OBVIOUS
<1>4. ASSUME NEW i \in 1..Len(a) + Len(b) PROVE (a \o b)[i] = c[i]
  <2>1. CASE i <= Len(a)
    <3>1. (a \o b)[i] = a[i] BY <2>1, ConcatProperties
    <3>2. i \in 1..Len(a) BY <1>3, <2>1
    <3> QED BY <3>1, <3>2
  <2>2. CASE ~(i <= Len(a))
    <3>1. (a \o b)[i] = b[i - Len(a)] BY <2>2, ConcatProperties
    <3>2. i - Len(a) \in 1..Len(b) /\ Len(a) + (i - Len(a)) = i BY <1>3, <2>2
    <3>3. c[Len(a) + (i - Len(a))] = b[i - Len(a)] BY <3>2
    <3> QED BY <3>1, <3>2, <3>3
  <2> QED BY <2>1, <2>2
<1>5. a \o b = c BY <1>1, <1>2, <1>4, SeqEqual
<1> QED BY <1>5

RunWords == {"save", "run", "markOutcome"}

LEMMA Started ==
  /\ S2 \o <<>> = S2 /\ R1 \o <<>> = R1
  /\ S2 \o M4 = M3 /\ R1 \o M4 = M1
<1>1. S2 \in Seq(RunWords) /\ R1 \in Seq(RunWords) /\ M1 \in Seq(RunWords) /\ M3 \in Seq(RunWords)
      /\ M4 \in Seq(RunWords)
  BY DEF S2, R1, M1, M3, M4, RunWords
<1>2. S2 \o <<>> = S2 /\ R1 \o <<>> = R1 BY <1>1, ConcatEmptySeq
<1>3. Len(M3) = Len(S2) + Len(M4) /\ Len(M1) = Len(R1) + Len(M4) BY DEF S2, R1, M1, M3, M4
<1>4. /\ \A i \in 1 .. Len(S2) : M3[i] = S2[i]
      /\ \A i \in 1 .. Len(M4) : M3[Len(S2) + i] = M4[i]
  BY DEF S2, M3, M4
<1>5. /\ \A i \in 1 .. Len(R1) : M1[i] = R1[i]
      /\ \A i \in 1 .. Len(M4) : M1[Len(R1) + i] = M4[i]
  BY DEF R1, M1, M4
<1>6. S2 \o M4 = M3 BY <1>1, <1>3, <1>4, Glued
<1>7. R1 \o M4 = M1 BY <1>1, <1>3, <1>5, Glued
<1> QED BY <1>2, <1>6, <1>7

\* A run begins: the job's state in a copy of the file.
Begun(s, state) == [file EXCEPT !.jobs[s] = state]
After(op, state) ==
    IF state = "executing" THEN (IF op = "activate" THEN M1 ELSE R1)
    ELSE (IF op = "activate" THEN M3 ELSE S2)

LEMMA BegunIs ==
  ASSUME SubInv, NEW s \in Subs, file.jobs[s] # None, NEW state \in {"ready", "blocked", "executing"}
  PROVE  /\ FileOK(Begun(s, state), born, sent, payments) /\ Kept(file, Begun(s, state))
         /\ \A u \in Subs : Begun(s, state).jobs[u] = IF u = s THEN state ELSE file.jobs[u]
         /\ Owed(s, born)
<1> DEFINE f == [file.jobs EXCEPT ![s] = state]
           G == [file EXCEPT !.jobs = f]
<1>1. FileOK(file, born, sent, payments) BY DEF SubInv
<1>2. file \in Files /\ file.jobs \in [Subs -> JobStates] BY <1>1 DEF FileOK, Files
<1>3. Begun(s, state) = G BY <1>2 DEF Begun, Files
<1>4. f \in [Subs -> JobStates] BY <1>2 DEF JobStates
<1>5. \A u \in Subs : f[u] = IF u = s THEN state ELSE file.jobs[u] BY <1>2
<1> HIDE DEF f
<1>6. G \in Files /\ G.jobs = f /\ G.subs = file.subs /\ G.log = file.log BY <1>2, <1>4 DEF Files
<1> HIDE DEF G
<1>7. Owed(s, born) BY <1>1 DEF FileOK
<1>8. FileOK(G, born, sent, payments) BY <1>1, <1>5, <1>6, <1>7, SameLog DEF FileOK
<1>9. Kept(file, G) BY <1>6, SameLog DEF Kept
<1> QED BY <1>3, <1>5, <1>6, <1>7, <1>8, <1>9

LEMMA StartCases ==
  ASSUME SubInv, NEW t \in Threads, StartRun(t)
  PROVE  /\ Busy(t) /\ Ahead(th[t].todo) = "start" /\ th[t].sub \in Subs
         /\ UNCHANGED <<queues, file, world, born, sent, heard, byId, acked, requests>>
         /\ \/ th' = [th EXCEPT ![t] = Idle]
            \/ \E state \in {"ready", "blocked", "executing"} :
               /\ file.jobs[th[t].sub] # None
               /\ th' = [th EXCEPT ![t] = [[th[t] EXCEPT !.copy = Begun(th[t].sub, state), !.delivered = FALSE]
                                             EXCEPT !.todo = After(th[t].op, state)]]
<1> DEFINE r == th[t]
           B(state) == [r EXCEPT !.copy = [file EXCEPT !.jobs[r.sub] = state], !.delivered = FALSE]
<1>1. Busy(t) /\ Ahead(r.todo) = "start" BY DEF StartRun, At, Ahead
<1>2. UNCHANGED <<queues, file, world, born, sent, heard, byId, acked, requests>> BY DEF StartRun
<1>3. /\ r.op \in Ops /\ r.todo \in Doing(r.op) /\ r.todo # <<>> /\ RequestOK(r, born, sent, payments)
      /\ r.sub \in 0 .. MaxSubs
  BY <1>1, Serving
<1>4. /\ r.op \in {"run", "pending", "activate"}
      /\ r.op # "activate" => r.todo = S1 /\ Left(r.todo) = <<>>
      /\ r.op = "activate" => r.todo = A8 /\ Left(r.todo) = M4 /\ r.todo \notin Unmade
      /\ r.todo # P1
  BY <1>1, <1>3, BeforeRun
<1>5. r.sub \in Subs
  <2>1. Len(born) \in Nat BY DEF SubInv
  <2> QED BY <1>3, <1>4, <2>1, SubscriptionsAssumption DEF RequestOK, Subs
<1>6. Rest(t) = Left(r.todo) BY DEF Rest, Left
<1>7. ASSUME NEW state \in {"ready", "blocked"}, file.jobs[r.sub] # None, Continue(t, B(state), S2 \o Rest(t))
      PROVE  th' = [th EXCEPT ![t] = [[r EXCEPT !.copy = Begun(r.sub, state), !.delivered = FALSE]
                                             EXCEPT !.todo = After(r.op, state)]]
  <2>1. S2 \o Rest(t) = After(r.op, state) BY <1>4, <1>6, Started DEF After
  <2>2. After(r.op, state) # <<>> BY Activation, OtherWork DEF After
  <2>3. B(state) = [r EXCEPT !.copy = Begun(r.sub, state), !.delivered = FALSE] BY DEF Begun
  <2> HIDE DEF B
  <2> QED BY <1>7, <2>1, <2>2, <2>3 DEF Continue
<1>8. ASSUME file.jobs[r.sub] # None, Continue(t, B("executing"), R1 \o Rest(t))
      PROVE  th' = [th EXCEPT ![t] = [[r EXCEPT !.copy = Begun(r.sub, "executing"), !.delivered = FALSE]
                                             EXCEPT !.todo = After(r.op, "executing")]]
  <2>1. R1 \o Rest(t) = After(r.op, "executing") BY <1>4, <1>6, Started DEF After
  <2>2. After(r.op, "executing") # <<>> BY Activation, OtherWork DEF After
  <2>3. B("executing") = [r EXCEPT !.copy = Begun(r.sub, "executing"), !.delivered = FALSE] BY DEF Begun
  <2> HIDE DEF B
  <2> QED BY <1>8, <2>1, <2>2, <2>3 DEF Continue
<1>9. \/ file.jobs[r.sub] = None /\ Continue(t, r, <<>>)
      \/ file.jobs[r.sub] # None /\ \E state \in {"ready", "blocked"} : Continue(t, B(state), S2 \o Rest(t))
      \/ file.jobs[r.sub] # None /\ Continue(t, B("executing"), R1 \o Rest(t))
  BY DEF StartRun, S2, R1
<1>10. CASE Continue(t, r, <<>>)
  <2>1. th' = [th EXCEPT ![t] = Idle] BY <1>10 DEF Continue
  <2> QED BY <1>1, <1>2, <1>5, <2>1
<1> HIDE DEF B
<1>11. CASE file.jobs[r.sub] # None /\ \E state \in {"ready", "blocked"} : Continue(t, B(state), S2 \o Rest(t))
  <2>1. PICK state \in {"ready", "blocked"} : Continue(t, B(state), S2 \o Rest(t)) BY <1>11
  <2>2. th' = [th EXCEPT ![t] = [[r EXCEPT !.copy = Begun(r.sub, state), !.delivered = FALSE]
                                             EXCEPT !.todo = After(r.op, state)]]
    BY <1>7, <1>11, <2>1
  <2>3. state \in {"ready", "blocked", "executing"} OBVIOUS
  <2> QED BY <1>1, <1>2, <1>5, <1>11, <2>2, <2>3
<1>12. CASE file.jobs[r.sub] # None /\ Continue(t, B("executing"), R1 \o Rest(t))
  <2>1. th' = [th EXCEPT ![t] = [[r EXCEPT !.copy = Begun(r.sub, "executing"), !.delivered = FALSE]
                                             EXCEPT !.todo = After(r.op, "executing")]]
    BY <1>8, <1>12
  <2> QED BY <1>1, <1>2, <1>5, <1>12, <2>1
<1> QED BY <1>9, <1>10, <1>11, <1>12

LEMMA AfterIs ==
  ASSUME NEW op \in Ops, op \in {"run", "pending", "activate"},
         NEW state \in {"ready", "blocked", "executing"}
  PROVE  /\ After(op, state) \in Doing(op) /\ After(op, state) # <<>> /\ After(op, state) # P1
         /\ After(op, state) \notin Unmade \cup Unlaunched /\ ~HasAdd(After(op, state))
         /\ After(op, state) \in Runs <=> state = "executing"
         /\ Ahead(After(op, state)) = "save"
BY Activation, OtherWork, Additions DEF After, Doing, Unmade, Unlaunched, Runs, None

LEMMA StartStep ==
  ASSUME SubInv, NEW t \in Threads, Busy(t), Ahead(th[t].todo) = "start", th[t].sub \in Subs,
         NEW state \in {"ready", "blocked", "executing"}, file.jobs[th[t].sub] # None,
         th' = [th EXCEPT ![t] = [[th[t] EXCEPT !.copy = Begun(th[t].sub, state), !.delivered = FALSE]
                                    EXCEPT !.todo = After(th[t].op, state)]],
         UNCHANGED <<queues, file, world, born, sent, heard, byId, breaks>>, alone' \in BOOLEAN
  PROVE  SubInv' /\ Went(t, th[t].sub, Begun(th[t].sub, state), After(th[t].op, state), FALSE)
<1> DEFINE r == th[t]
           rest == After(r.op, state)
           C == Begun(r.sub, state)
           new == [[r EXCEPT !.copy = C, !.delivered = FALSE] EXCEPT !.todo = rest]
<1>1. /\ r \in Requests /\ r.op \in Ops /\ r.todo \in Doing(r.op) /\ r.todo # <<>>
      /\ RequestOK(r, born, sent, payments) /\ r.sub \in 0 .. MaxSubs /\ PreviewsOK(previews, born, sent)
      /\ r.sub \in Subs
  BY Serving
<1>2. /\ r.op \in {"run", "pending", "activate"} /\ (r.op = "activate" => r.todo \notin Unmade)
  BY <1>1, BeforeRun
<1>3. /\ rest \in Doing(r.op) /\ rest # <<>> /\ rest # P1 /\ rest \notin Unmade /\ ~HasAdd(rest)
  BY <1>1, <1>2, AfterIs
<1>4. FileOK(C, born, sent, payments) /\ Owed(r.sub, born) BY BegunIs
<1>5. th' = [th EXCEPT ![t] = new] OBVIOUS
<1>6. C \in Files /\ rest \in Todos BY <1>1, <1>3, <1>4, Ahead1 DEF FileOK
<1> HIDE DEF r, rest, C
<1>7. Becomes(new, r, r.sub, C, rest, FALSE) BY <1>1, <1>6, Becoming
<1>8. r.op = "activate" /\ rest \notin Unmade
           => r.sub \in 1 .. Len(born) /\ born[r.sub].quote = r.quote /\ born[r.sub].earned
  BY <1>1, <1>2 DEF RequestOK
<1> HIDE DEF new
<1>9. RequestOK(new, born, sent, payments) BY <1>1, <1>3, <1>4, <1>7, <1>8, Advanced
<1>10. new.todo = rest BY <1>7 DEF Becomes
<1>11. Room' BY <1>3, <1>5, <1>10, RoomStays
<1>12. /\ FileOK(file', born, sent, payments) /\ byId' \subseteq Subs /\ breaks' \in Nat
       /\ PreviewsOK(previews', born, sent)
  BY DEF SubInv, queues
<1>13. SubInv' BY <1>5, <1>9, <1>11, <1>12, Quietly
<1>14. th'[t] = new /\ \A u \in Threads \ {t} : th'[u] = th[u] BY <1>5 DEF SubInv
<1>15. Went(t, r.sub, C, rest, FALSE) BY <1>3, <1>7, <1>14 DEF Went, r
<1> QED BY <1>13, <1>15 DEF r, C, rest

\* What the run leaves in its copy.
Sent(s, outcome) == More(sent, s, outcome \in {"late", "sent"})
Heard(s, outcome) == More(heard, s, outcome = "sent")

LEMMA MoreIs ==
  ASSUME NEW count \in [Subs -> Nat], NEW s \in Subs, NEW yes \in BOOLEAN
  PROVE  /\ More(count, s, yes) \in [Subs -> Nat]
         /\ \A u \in Subs : /\ More(count, s, yes)[u] = IF u = s /\ yes THEN count[u] + 1 ELSE count[u]
                           /\ count[u] <= More(count, s, yes)[u]
<1>1. CASE yes
  <2> DEFINE f == [count EXCEPT ![s] = @ + 1]
  <2>1. f \in [Subs -> Nat] /\ \A u \in Subs : f[u] = IF u = s THEN count[u] + 1 ELSE count[u] OBVIOUS
  <2>2. More(count, s, yes) = f BY <1>1 DEF More
  <2> HIDE DEF f
  <2>3. \A u \in Subs : count[u] <= f[u] BY <2>1
  <2> QED BY <1>1, <2>1, <2>2, <2>3
<1>2. CASE ~yes
  <2>1. More(count, s, yes) = count BY <1>2 DEF More
  <2> QED BY <1>2, <2>1
<1> QED BY <1>1, <1>2

LEMMA SentMore ==
  ASSUME SubInv, NEW s \in Subs, NEW outcome
  PROVE  /\ Sent(s, outcome) \in [Subs -> Nat] /\ Heard(s, outcome) \in [Subs -> Nat]
         /\ \A u \in Subs : Sent(s, outcome)[u] =
              IF u = s /\ outcome \in {"late", "sent"} THEN sent[u] + 1 ELSE sent[u]
         /\ \A u \in Subs : Heard(s, outcome)[u] = IF u = s /\ outcome = "sent" THEN heard[u] + 1 ELSE heard[u]
         /\ Longer(born, sent, payments, born, Sent(s, outcome), payments)
<1>1. sent \in [Subs -> Nat] /\ heard \in [Subs -> Nat] /\ born \in Seq(Birth) BY DEF SubInv
<1> DEFINE went == outcome \in {"late", "sent"}
           took == outcome = "sent"
<1> USE DEF Sent, Heard
<1>2. /\ Sent(s, outcome) \in [Subs -> Nat]
      /\ \A u \in Subs : Sent(s, outcome)[u] =
           IF u = s /\ outcome \in {"late", "sent"} THEN sent[u] + 1 ELSE sent[u]
      /\ \A u \in Subs : sent[u] <= Sent(s, outcome)[u]
  <2>1. went \in BOOLEAN OBVIOUS
  <2> HIDE DEF went
  <2>2. /\ More(sent, s, went) \in [Subs -> Nat]
        /\ \A u \in Subs : /\ More(sent, s, went)[u] = IF u = s /\ went THEN sent[u] + 1 ELSE sent[u]
                          /\ sent[u] <= More(sent, s, went)[u]
    BY <1>1, <2>1, MoreIs, Zenon
  <2>3. Sent(s, outcome) = More(sent, s, went) BY DEF went
  <2> HIDE DEF Sent
  <2> QED BY <2>2, <2>3 DEF went
<1>3. /\ Heard(s, outcome) \in [Subs -> Nat]
      /\ \A u \in Subs : Heard(s, outcome)[u] = IF u = s /\ outcome = "sent" THEN heard[u] + 1 ELSE heard[u]
  <2>1. took \in BOOLEAN OBVIOUS
  <2> HIDE DEF took
  <2>2. /\ More(heard, s, took) \in [Subs -> Nat]
        /\ \A u \in Subs : More(heard, s, took)[u] = IF u = s /\ took THEN heard[u] + 1 ELSE heard[u]
    BY <1>1, <2>1, MoreIs, Zenon
  <2>3. Heard(s, outcome) = More(heard, s, took) BY DEF took
  <2> HIDE DEF Heard
  <2> QED BY <2>2, <2>3 DEF took
<1> HIDE DEF Sent, Heard
<1>4. Longer(born, sent, payments, born, Sent(s, outcome), payments) BY <1>1, <1>2 DEF Longer
<1> QED BY <1>2, <1>3, <1>4

Ran(F, G, s, outcome) ==
    /\ G.subs = F.subs
    /\ \A u \in Subs : Len(G.log) < LogKept =>
         /\ Len(F.log) < LogKept
         /\ Rows(G, u) = IF u = s /\ outcome = "sent" THEN Rows(F, u) + 1 ELSE Rows(F, u)
    /\ \A u \in Subs : G.jobs[u] = IF u # s THEN F.jobs[u]
                                   ELSE IF outcome = "sent" THEN "executed" ELSE "blocked"

LEMMA SettledIs ==
  ASSUME SubInv, NEW F, NEW s \in Subs, FileOK(F, born, sent, payments), Owed(s, born), NEW outcome
  PROVE  /\ FileOK(Settled(F, s, outcome), born, Sent(s, outcome), payments)
         /\ Ran(F, Settled(F, s, outcome), s, outcome)
<1> DEFINE g == [F.jobs EXCEPT ![s] = IF outcome = "sent" THEN "executed" ELSE "blocked"]
           l == IF outcome = "sent" THEN Logged(F.log, s) ELSE F.log
           G == [F EXCEPT !.jobs = g, !.log = l]
<1>1. F \in Files /\ F.jobs \in [Subs -> JobStates] /\ F.log \in Log BY DEF FileOK, Files, Log
<1>2. Settled(F, s, outcome) = G BY <1>1 DEF Settled, Files
<1>3. g \in [Subs -> JobStates] BY <1>1 DEF JobStates
<1>4. \A u \in Subs : g[u] = IF u # s THEN F.jobs[u] ELSE IF outcome = "sent" THEN "executed" ELSE "blocked"
  BY <1>1
<1> HIDE DEF g
<1>5. G.log = l /\ s \in 0 .. MaxSubs BY <1>1, SubscriptionsAssumption DEF Files, Subs
<1> HIDE DEF G
<1>6. /\ l \in Log
      /\ \A u \in Subs :
           /\ Rows(G, u) <= IF u = s /\ outcome = "sent" THEN Rows(F, u) + 1 ELSE Rows(F, u)
           /\ Len(G.log) < LogKept =>
                /\ Len(F.log) < LogKept
                /\ Rows(G, u) = IF u = s /\ outcome = "sent" THEN Rows(F, u) + 1 ELSE Rows(F, u)
  <2>1. CASE outcome = "sent"
    <3>1. G.log = Logged(F.log, s) BY <1>5, <2>1
    <3> QED BY <1>1, <1>5, <2>1, <3>1, LoggedIs
  <2>2. CASE outcome # "sent"
    <3>1. G.log = F.log BY <1>5, <2>2
    <3>2. \A u \in Subs : Rows(F, u) \in Nat BY <1>1, RowsNat
    <3> QED BY <1>1, <1>5, <2>2, <3>1, <3>2, SameLog
  <2> QED BY <2>1, <2>2
<1> HIDE DEF l
<1>7. G \in Files /\ G.jobs = g /\ G.subs = F.subs BY <1>1, <1>3, <1>6 DEF Files, Log, G
<1> DEFINE st == Sent(s, outcome)
<1>8. /\ st \in [Subs -> Nat] /\ Longer(born, sent, payments, born, st, payments)
      /\ \A u \in Subs : st[u] = IF u = s /\ outcome \in {"late", "sent"} THEN sent[u] + 1 ELSE sent[u]
      /\ born \in Seq(Birth) /\ sent \in [Subs -> Nat]
  BY SentMore DEF SubInv
<1> HIDE DEF st
<1>9. FileOK(F, born, st, payments) BY <1>8, FileStands
<1>10. ASSUME NEW u \in Subs PROVE
        /\ Rows(G, u) <= st[u]
        /\ G.jobs[u] = "executed" => st[u] > 0
        /\ G.jobs[u] # None => Owed(u, born)
  <2>1. /\ Rows(F, u) \in Nat /\ Rows(G, u) \in Nat
        /\ sent[u] \in Nat /\ Rows(F, u) <= sent[u] /\ st[u] \in Nat
    BY <1>1, <1>5, <1>6, <1>8, RowsNat DEF FileOK
  <2>2. Rows(G, u) <= st[u]
    <3>1. CASE u = s /\ outcome = "sent"
      <4>1. Rows(G, u) <= Rows(F, u) + 1 /\ st[u] = sent[u] + 1 BY <1>6, <1>8, <3>1
      <4> QED BY <2>1, <4>1
    <3>2. CASE ~(u = s /\ outcome = "sent")
      <4>1. Rows(G, u) <= Rows(F, u) /\ sent[u] <= st[u] BY <1>6, <1>8, <2>1, <3>2
      <4> QED BY <2>1, <4>1
    <3> QED BY <3>1, <3>2
  <2>3. G.jobs[u] = "executed" => st[u] > 0
    <3>1. CASE u # s
      <4>1. G.jobs[u] = F.jobs[u] BY <1>4, <1>7, <3>1
      <4> QED BY <1>9, <4>1 DEF FileOK
    <3>2. CASE u = s
      <4>1. G.jobs[u] = "executed" => outcome = "sent" BY <1>4, <1>7, <3>2
      <4> QED BY <1>8, <2>1, <3>2, <4>1
    <3> QED BY <3>1, <3>2
  <2>4. G.jobs[u] # None => Owed(u, born) BY <1>4, <1>7, <1>9 DEF FileOK
  <2> QED BY <2>2, <2>3, <2>4
<1>11. FileOK(G, born, st, payments) BY <1>7, <1>9, <1>10 DEF FileOK
<1>12. Ran(F, G, s, outcome) BY <1>4, <1>6, <1>7 DEF Ran
<1> QED BY <1>2, <1>11, <1>12 DEF st

LEMMA RunCases ==
  ASSUME SubInv, NEW t \in Threads, Run(t)
  PROVE  /\ Busy(t) /\ Ahead(th[t].todo) = "run" /\ th[t].sub \in Subs /\ Owed(th[t].sub, born)
         /\ UNCHANGED <<queues, file, world, born, byId, acked, requests>>
         /\ \E outcome \in Outcomes :
               /\ sent' = Sent(th[t].sub, outcome) /\ heard' = Heard(th[t].sub, outcome)
               /\ th' = [th EXCEPT ![t] =
                    [[th[t] EXCEPT !.copy = Settled(th[t].copy, th[t].sub, outcome), !.delivered = (outcome = "sent")]
                       EXCEPT !.todo = Left(th[t].todo)]]
<1> DEFINE r == th[t]
<1>1. PICK outcome \in Outcomes :
        /\ At(t, "run")
        /\ sent' = More(sent, r.sub, outcome \in {"late", "sent"})
        /\ heard' = More(heard, r.sub, outcome = "sent")
        /\ Continue(t, [r EXCEPT !.copy = Settled(r.copy, r.sub, outcome),
                                 !.delivered = Delivered(outcome)], Rest(t))
        /\ UNCHANGED <<queues, file, world, born, byId, acked, requests>>
  BY DEF Run
<1>2. Busy(t) /\ Ahead(r.todo) = "run" /\ Rest(t) = Left(r.todo) BY <1>1 DEF At, Ahead, Rest, Left
<1>3. /\ r.op \in Ops /\ r.todo \in Doing(r.op) /\ RequestOK(r, born, sent, payments) /\ r.sub \in 0 .. MaxSubs
      /\ born \in Seq(Birth)
  BY <1>2, Serving
<1>4. r.todo \in Runs /\ Left(r.todo) # <<>> BY <1>2, <1>3, AfterRun
<1>5. Owed(r.sub, born) BY <1>3, <1>4 DEF RequestOK
<1>6. r.sub \in Subs
  <2>1. Len(born) \in Nat BY <1>3
  <2> QED BY <1>3, <1>5, <2>1, SubscriptionsAssumption DEF Owed, Subs
<1>7. sent' = Sent(r.sub, outcome) /\ heard' = Heard(r.sub, outcome) BY <1>1 DEF Sent, Heard
<1>8. th' = [th EXCEPT ![t] =
              [[r EXCEPT !.copy = Settled(r.copy, r.sub, outcome), !.delivered = (outcome = "sent")]
                       EXCEPT !.todo = Left(r.todo)]]
  BY <1>1, <1>2, <1>4 DEF Continue, Delivered
<1> QED BY <1>1, <1>2, <1>5, <1>6, <1>7, <1>8

LEMMA RunStep ==
  ASSUME SubInv, NEW t \in Threads, Busy(t), Ahead(th[t].todo) = "run", th[t].sub \in Subs,
         Owed(th[t].sub, born), NEW outcome \in Outcomes,
         sent' = Sent(th[t].sub, outcome), heard' = Heard(th[t].sub, outcome),
         th' = [th EXCEPT ![t] =
                    [[th[t] EXCEPT !.copy = Settled(th[t].copy, th[t].sub, outcome), !.delivered = (outcome = "sent")]
                       EXCEPT !.todo = Left(th[t].todo)]],
         UNCHANGED <<queues, file, world, born, byId, breaks>>, alone' \in BOOLEAN
  PROVE  /\ SubInv'
         /\ Went(t, th[t].sub, Settled(th[t].copy, th[t].sub, outcome), Left(th[t].todo), outcome = "sent")
<1> DEFINE r == th[t]
           rest == Left(r.todo)
           C == Settled(r.copy, r.sub, outcome)
           d == (outcome = "sent")
           new == [[r EXCEPT !.copy = C, !.delivered = d] EXCEPT !.todo = rest]
<1>1. /\ r \in Requests /\ r.op \in Ops /\ r.todo \in Doing(r.op) /\ r.todo # <<>>
      /\ RequestOK(r, born, sent, payments) /\ r.sub \in 0 .. MaxSubs /\ PreviewsOK(previews, born, sent)
      /\ r.sub \in Subs /\ FileOK(r.copy, born, sent, payments) /\ FileOK(file, born, sent, payments)
      /\ born \in Seq(Birth) /\ sent \in [Subs -> Nat]
  BY Serving
<1>2. /\ rest \in Doing(r.op) /\ rest # <<>> /\ rest # P1 /\ rest \notin Runs /\ rest \in Ended
      /\ (r.op = "activate" => r.todo \notin Unmade) /\ ~HasAdd(rest)
      /\ r.op \in {"run", "pending", "activate"}
  <2>1. Ahead(P1) # "save" BY OtherWork
  <2> QED BY <1>1, <2>1, AfterRun
<1>3. FileOK(C, born, sent', payments)
  <2> DEFINE F == r.copy  s == r.sub
  <2>1. FileOK(F, born, sent, payments) /\ s \in Subs /\ Owed(s, born) BY <1>1
  <2> HIDE DEF F, s
  <2>2. FileOK(Settled(F, s, outcome), born, Sent(s, outcome), payments) BY <2>1, SettledIs
  <2> QED BY <2>2 DEF F, s
<1>4. th' = [th EXCEPT ![t] = new] OBVIOUS
<1>5. C \in Files /\ rest \in Todos /\ d \in BOOLEAN BY <1>1, <1>2, <1>3, Ahead1 DEF FileOK
<1>6. /\ sent' \in [Subs -> Nat] /\ Longer(born, sent, payments, born, sent', payments)
      /\ \A u \in Subs : sent'[u] = IF u = r.sub /\ outcome \in {"late", "sent"} THEN sent[u] + 1 ELSE sent[u]
      /\ heard' \in [Subs -> Nat]
  BY SentMore
<1>7. d => sent'[r.sub] > 0 BY <1>1, <1>6
<1>8. Owed(r.sub, born) OBVIOUS
<1> HIDE DEF r, rest, C, d
<1>9. Becomes(new, r, r.sub, C, rest, d) BY <1>1, <1>5, Becoming
<1>10. RequestOK(r, born, sent', payments) BY <1>1, <1>6, RequestStands
<1>11. r.op = "activate" /\ rest \notin Unmade
           => r.sub \in 1 .. Len(born) /\ born[r.sub].quote = r.quote /\ born[r.sub].earned
  BY <1>1, <1>2 DEF RequestOK
<1> HIDE DEF new
<1>12. RequestOK(new, born, sent', payments)
  BY <1>1, <1>2, <1>3, <1>7, <1>9, <1>10, <1>11, Advanced
<1>13. new.todo = rest BY <1>9 DEF Becomes
<1>14. Room' BY <1>2, <1>4, <1>13, RoomStays
<1>15. \A s \in Subs : sent'[s] > 0 => Owed(s, born)
  <2>1. \A s \in Subs : sent[s] > 0 => Owed(s, born) BY DEF SubInv
  <2> QED BY <1>6, <1>8, <2>1
<1>16. FileOK(file, born, sent', payments) /\ PreviewsOK(previews, born, sent')
  BY <1>1, <1>6, FileStands, PreviewsStand
<1>17. payments' = payments /\ expired' = expired /\ file' = file /\ previews' = previews /\ born' = born
       /\ byId' = byId /\ breaks' = breaks
  BY DEF world, queues
<1>18. SubInv'
  <2>1. /\ RequestOK(new, born', sent', payments') /\ FileOK(file', born', sent', payments')
        /\ Longer(born, sent, payments, born', sent', payments') /\ payments' \subseteq Refs
        /\ PreviewsOK(previews', born', sent') /\ \A s \in Subs : sent'[s] > 0 => Owed(s, born')
    BY <1>6, <1>12, <1>15, <1>16, <1>17 DEF SubInv
  <2>2. expired' \subseteq Subs /\ byId' \subseteq Subs /\ breaks' \in Nat /\ heard' \in [Subs -> Nat]
    BY <1>6, <1>17 DEF SubInv
  <2> QED BY <1>4, <1>14, <2>1, <2>2, Assembled
<1>19. th'[t] = new /\ \A u \in Threads \ {t} : th'[u] = th[u] BY <1>4 DEF SubInv
<1>20. Went(t, r.sub, C, rest, d) BY <1>2, <1>9, <1>19 DEF Went, r
<1> QED BY <1>18, <1>20 DEF r, C, rest, d

---------------------------------------------------------------------------
\* A step that ends or goes on, with the request's record as it was.
LEMMA OtherStep ==
  ASSUME SubInv, NEW t \in Threads, Busy(t),
         Ahead(th[t].todo) \in {"quote", "ack", "list", "markDrafted", "markOutcome"},
         Continue(t, th[t], Rest(t)), PreviewsOK(previews', born, sent),
         UNCHANGED <<file, world, born, sent, heard, byId, breaks>>, alone' \in BOOLEAN
  PROVE  SubInv' /\ Went(t, th[t].sub, th[t].copy, Left(th[t].todo), th[t].delivered)
<1> DEFINE r == th[t]
           rest == Left(r.todo)
           new == IF rest = <<>> THEN Idle ELSE [r EXCEPT !.todo = rest]
<1>1. /\ r \in Requests /\ r.op \in Ops /\ r.todo \in Doing(r.op) /\ r.todo # <<>>
      /\ RequestOK(r, born, sent, payments) /\ FileOK(r.copy, born, sent, payments)
      /\ RequestOK(Idle, born, sent, payments) /\ ~HasAdd(Idle.todo)
  BY Serving
<1>2. /\ rest = <<>> \/ rest \in Doing(r.op)
      /\ r.todo \notin Runs /\ rest \notin Runs /\ rest # P1 /\ r.op # "run" /\ rest \notin Unlaunched
      /\ r.op # "pending" /\ (HasAdd(rest) => HasAdd(r.todo))
      /\ r.todo \in Ended => rest = <<>>
      /\ r.op = "activate" /\ rest # <<>> => rest \in Unmade
  <2>1. r.todo \in Ended => Ahead(r.todo) \in {"save", "markOutcome"} BY Activation, OtherWork DEF Ended
  <2> QED BY <1>1, <2>1, AfterOthers
<1>3. th' = [th EXCEPT ![t] = new] BY DEF Continue, Rest, Left
<1>4. CASE rest = <<>>
  <2>1. th' = [th EXCEPT ![t] = Idle] BY <1>3, <1>4
  <2>2. Room' BY <1>1, <2>1, RoomStays
  <2>3. FileOK(file', born, sent, payments) /\ byId' \subseteq Subs /\ breaks' \in Nat BY DEF SubInv
  <2>4. SubInv' BY <1>1, <2>1, <2>2, <2>3, Quietly
  <2>5. th'[t] = Idle /\ \A u \in Threads \ {t} : th'[u] = th[u] BY <2>1 DEF SubInv
  <2> QED BY <1>4, <2>4, <2>5 DEF Went
<1>5. CASE rest # <<>>
  <2>1. rest \in Todos /\ new = [r EXCEPT !.todo = rest] BY <1>1, <1>2, <1>5, Ahead1
  <2>2. th' = [th EXCEPT ![t] = new] BY <1>3
  <2> HIDE DEF r, rest
  <2>3. Becomes(new, r, r.sub, r.copy, rest, r.delivered)
    <3>1. Becomes([r EXCEPT !.todo = rest], r, r.sub, r.copy, rest, r.delivered)
      BY <1>1, <2>1, Becoming DEF Requests
    <3> QED BY <2>1, <3>1
  <2>4. ~r.delivered BY <1>1, <1>2, <1>5 DEF RequestOK
  <2>5. rest \in Doing(r.op) /\ (r.op = "activate" => rest \in Unmade) BY <1>2, <1>5
  <2> HIDE DEF new
  <2>6. RequestOK(new, born, sent, payments)
    BY <1>1, <1>2, <2>3, <2>4, <2>5, Advanced
  <2> QED BY <1>2, <1>5, <2>2, <2>3, <2>6, GoOn DEF r, rest
<1> QED BY <1>4, <1>5

LEMMA PreviewSet ==
  ASSUME NEW pv, NEW bn, NEW st, PreviewsOK(pv, bn, st), NEW p \in Pilots, NEW rec \in Preview(0 .. MaxSubs),
         rec.sub > 0 => rec.sub \in 1 .. Len(bn) /\ bn[rec.sub].quote = p /\ bn[rec.sub].earned,
         rec.fulfilled => \E s \in Subs : s \in 1 .. Len(bn) /\ bn[s].quote = p /\ st[s] > 0
  PROVE  PreviewsOK([pv EXCEPT ![p] = rec], bn, st)
<1> DEFINE f == [pv EXCEPT ![p] = rec]
<1>1. pv \in [Pilots -> Preview(0 .. MaxSubs)] BY DEF PreviewsOK
<1>2. f \in [Pilots -> Preview(0 .. MaxSubs)] /\ \A q \in Pilots : f[q] = IF q = p THEN rec ELSE pv[q]
  BY <1>1
<1> HIDE DEF f
<1>3. PreviewsOK(f, bn, st) BY <1>2 DEF PreviewsOK
<1> QED BY <1>3 DEF f

LEMMA QuotedOK ==
  ASSUME SubInv, NEW p \in Pilots
  PROVE  PreviewsOK(Quoted(p), born, sent) /\ PreviewsOK(MarkDrafted(p), born, sent)
<1>1. PreviewsOK(previews, born, sent) BY DEF SubInv
<1>2. previews \in [Pilots -> Preview(0 .. MaxSubs)] BY <1>1 DEF PreviewsOK
<1> DEFINE v == previews[p]
           state == IF pilots[p] = "reviewed" THEN "reviewed" ELSE "previewed"
           rec == [v EXCEPT !.state = state, !.captured = FALSE, !.fulfilled = FALSE]
           rec2 == [v EXCEPT !.drafted = TRUE]
<1>3. v \in Preview(0 .. MaxSubs) /\ state \in {"none", "previewed", "reviewed"} BY <1>2
<1>4. Quoted(p) = [previews EXCEPT ![p] = rec] /\ MarkDrafted(p) = [previews EXCEPT ![p] = rec2]
  BY <1>2 DEF Quoted, MarkDrafted
<1> HIDE DEF v, state
<1>5. rec \in Preview(0 .. MaxSubs) /\ rec.sub = v.sub /\ rec.fulfilled = FALSE BY <1>3 DEF Preview
<1>6. rec2 \in Preview(0 .. MaxSubs) /\ rec2.sub = v.sub /\ rec2.fulfilled = v.fulfilled
  BY <1>3 DEF Preview
<1> HIDE DEF rec, rec2
<1>7. /\ v.sub > 0 => v.sub \in 1 .. Len(born) /\ born[v.sub].quote = p /\ born[v.sub].earned
      /\ v.fulfilled => \E s \in Subs : s \in 1 .. Len(born) /\ born[s].quote = p /\ sent[s] > 0
  BY <1>1 DEF PreviewsOK, v
<1>8. PreviewsOK([previews EXCEPT ![p] = rec], born, sent) BY <1>1, <1>5, <1>7, PreviewSet
<1>9. PreviewsOK([previews EXCEPT ![p] = rec2], born, sent) BY <1>1, <1>6, <1>7, PreviewSet
<1> QED BY <1>4, <1>8, <1>9

LEMMA MarkedOK ==
  ASSUME SubInv, NEW p \in Pilots, NEW x \in 0 .. MaxSubs, x \in 1 .. Len(born), born[x].quote = p,
         born[x].earned
  PROVE  /\ PreviewsOK(MarkActivated(p, x, TRUE), born, sent)
         /\ x \in Subs /\ sent[x] > 0 => PreviewsOK(MarkDelivered(p), born, sent)
<1>1. PreviewsOK(previews, born, sent) BY DEF SubInv
<1>2. previews \in [Pilots -> Preview(0 .. MaxSubs)] BY <1>1 DEF PreviewsOK
<1> DEFINE v == previews[p]
           rec == [v EXCEPT !.sub = x, !.captured = TRUE]
           rec2 == [v EXCEPT !.delivered = TRUE, !.fulfilled = TRUE]
<1>3. v \in Preview(0 .. MaxSubs) BY <1>2
<1>4. MarkActivated(p, x, TRUE) = [previews EXCEPT ![p] = rec]
      /\ MarkDelivered(p) = [previews EXCEPT ![p] = rec2]
  BY <1>2 DEF MarkActivated, MarkDelivered
<1> HIDE DEF v
<1>5. rec \in Preview(0 .. MaxSubs) /\ rec.sub = x /\ rec.fulfilled = v.fulfilled BY <1>3 DEF Preview
<1>6. rec2 \in Preview(0 .. MaxSubs) /\ rec2.sub = v.sub BY <1>3 DEF Preview
<1> HIDE DEF rec, rec2
<1>7. /\ v.sub > 0 => v.sub \in 1 .. Len(born) /\ born[v.sub].quote = p /\ born[v.sub].earned
      /\ v.fulfilled => \E s \in Subs : s \in 1 .. Len(born) /\ born[s].quote = p /\ sent[s] > 0
  BY <1>1 DEF PreviewsOK, v
<1>8. PreviewsOK([previews EXCEPT ![p] = rec], born, sent) BY <1>1, <1>5, <1>7, PreviewSet
<1>9. x \in Subs /\ sent[x] > 0 => PreviewsOK([previews EXCEPT ![p] = rec2], born, sent)
  <2> SUFFICES ASSUME x \in Subs, sent[x] > 0
               PROVE  PreviewsOK([previews EXCEPT ![p] = rec2], born, sent)
    OBVIOUS
  <2>1. \E s \in Subs : s \in 1 .. Len(born) /\ born[s].quote = p /\ sent[s] > 0 OBVIOUS
  <2>2. rec2.sub > 0 => rec2.sub \in 1 .. Len(born) /\ born[rec2.sub].quote = p /\ born[rec2.sub].earned
    BY <1>6, <1>7
  <2> QED BY <1>1, <1>6, <2>1, <2>2, PreviewSet
<1> QED BY <1>4, <1>8, <1>9

LEMMA QuoteStep ==
  ASSUME SubInv, NEW t \in Threads, GetQuote(t), alone' \in BOOLEAN, UNCHANGED breaks
  PROVE  /\ SubInv' /\ Busy(t) /\ Ahead(th[t].todo) = "quote"
         /\ Went(t, th[t].sub, th[t].copy, Left(th[t].todo), th[t].delivered)
            \/ Went(t, th[t].sub, th[t].copy, <<>>, th[t].delivered)
<1>1. Busy(t) /\ Ahead(th[t].todo) = "quote" BY DEF GetQuote, At, Ahead
<1>2. UNCHANGED <<queues, file, world, born, sent, heard, byId>> BY DEF GetQuote
<1>3. PreviewsOK(previews', born, sent) BY <1>2 DEF SubInv, queues
<1>4. CASE Continue(t, th[t], Rest(t)) BY <1>1, <1>2, <1>3, <1>4, OtherStep
<1>5. CASE Continue(t, th[t], <<>>)
  <2>1. th' = [th EXCEPT ![t] = Idle] BY <1>5 DEF Continue
  <2>2. breaks' \in Nat BY DEF SubInv
  <2> QED BY <1>1, <1>2, <2>1, <2>2, EndStep DEF Went
<1> QED BY <1>4, <1>5 DEF GetQuote

LEMMA ReviewStep ==
  ASSUME SubInv, NEW t \in Threads, Review(t), alone' \in BOOLEAN, UNCHANGED breaks
  PROVE  /\ SubInv' /\ Busy(t) /\ Ahead(th[t].todo) \in {"ack", "list"}
         /\ Went(t, th[t].sub, th[t].copy, Left(th[t].todo), th[t].delivered)
<1>1. Busy(t) /\ Ahead(th[t].todo) \in {"ack", "list"} BY DEF Review, At, Ahead
<1>2. UNCHANGED <<file, world, born, sent, heard, byId>> /\ Continue(t, th[t], Rest(t)) BY DEF Review
<1>3. th[t].op \in Ops /\ th[t].todo \in Doing(th[t].op) /\ RequestOK(th[t], born, sent, payments)
      /\ PreviewsOK(previews, born, sent)
  BY <1>1, Serving
<1>4. th[t].op = "review" BY <1>1, <1>3, AfterOthers
<1>5. th[t].quote \in Pilots BY <1>3, <1>4 DEF RequestOK
<1>6. previews' = previews \/ previews' = Quoted(th[t].quote) BY DEF Review
<1>7. PreviewsOK(previews', born, sent) BY <1>3, <1>5, <1>6, QuotedOK
<1> QED BY <1>1, <1>2, <1>7, OtherStep

LEMMA MarkStep ==
  ASSUME SubInv, NEW t \in Threads, Mark(t), alone' \in BOOLEAN, UNCHANGED breaks
  PROVE  /\ SubInv' /\ Busy(t) /\ Ahead(th[t].todo) \in {"markDrafted", "markOutcome"}
         /\ Went(t, th[t].sub, th[t].copy, <<>>, th[t].delivered)
<1> DEFINE r == th[t]
<1>1. Busy(t) /\ Ahead(r.todo) \in {"markDrafted", "markOutcome"} BY DEF Mark, At, Ahead
<1>2. UNCHANGED <<file, world, born, sent, heard, byId>> /\ Continue(t, r, Rest(t)) BY DEF Mark
<1>3. r.op \in Ops /\ r.todo \in Doing(r.op) /\ RequestOK(r, born, sent, payments) /\ r.todo # <<>>
      /\ PreviewsOK(previews, born, sent) /\ r.sub \in 0 .. MaxSubs
  BY <1>1, Serving
<1>4. /\ Left(r.todo) = <<>>
      /\ Ahead(r.todo) = "markOutcome" => r.op = "activate" /\ r.todo \notin Unmade
      /\ Ahead(r.todo) = "markDrafted" => r.op = "draft"
  BY <1>1, <1>3, AfterOthers
<1>5. PreviewsOK(previews', born, sent)
  <2>1. CASE Ahead(r.todo) = "markDrafted" /\ previews' = MarkDrafted(r.quote)
    <3>1. r.quote \in Pilots BY <1>3, <1>4, <2>1 DEF RequestOK
    <3> QED BY <2>1, <3>1, QuotedOK
  <2>2. CASE Ahead(r.todo) = "markOutcome"
    <3>1. /\ r.quote \in Pilots /\ r.sub \in 1 .. Len(born) /\ born[r.sub].quote = r.quote
          /\ born[r.sub].earned
          /\ r.delivered => r.sub \in Subs /\ sent[r.sub] > 0
      BY <1>3, <1>4, <2>2 DEF RequestOK
    <3>2. /\ PreviewsOK(MarkActivated(r.quote, r.sub, TRUE), born, sent)
          /\ r.delivered => PreviewsOK(MarkDelivered(r.quote), born, sent)
      BY <1>3, <3>1, MarkedOK
    <3>3. \/ r.delivered /\ previews' = MarkDelivered(r.quote)
          \/ previews' = MarkActivated(r.quote, r.sub, TRUE)
      BY <2>2 DEF Mark, At, Ahead
    <3> QED BY <3>2, <3>3
  <2> QED BY <1>1, <2>1, <2>2 DEF Mark, At, Ahead
<1>6. /\ SubInv' /\ Went(t, r.sub, r.copy, Left(r.todo), r.delivered)
  BY <1>1, <1>2, <1>5, OtherStep
<1> QED BY <1>1, <1>4, <1>6

LEMMA PickStep ==
  ASSUME SubInv, NEW t \in Threads, PickPending(t), alone' \in BOOLEAN, UNCHANGED breaks
  PROVE  /\ SubInv' /\ Busy(t) /\ Ahead(th[t].todo) = "pending" /\ Left(th[t].todo) = S1
         /\ \/ th'[t] = Idle /\ \A u \in Threads \ {t} : th'[u] = th[u]
            \/ \E s \in Pending(file) : Went(t, s, th[t].copy, S1, th[t].delivered)
<1> DEFINE r == th[t]
<1>1. Busy(t) /\ Ahead(r.todo) = "pending" BY DEF PickPending, At, Ahead
<1>2. UNCHANGED <<queues, file, world, born, sent, heard, byId>> BY DEF PickPending
<1>3. /\ r \in Requests /\ r.op \in Ops /\ r.todo \in Doing(r.op) /\ RequestOK(r, born, sent, payments)
      /\ r.todo # <<>> /\ PreviewsOK(previews, born, sent) /\ FileOK(r.copy, born, sent, payments)
  BY <1>1, Serving
<1>4. r.op = "pending" /\ Left(r.todo) = S1 /\ r.todo \notin Ended BY <1>1, <1>3, AfterOthers
<1>5. S1 # <<>> /\ S1 # P1 /\ S1 \notin Runs /\ S1 \in Doing("pending") /\ ~HasAdd(S1)
  BY Activation, OtherWork, Additions DEF Runs, Doing, None
<1>6. CASE Continue(t, r, <<>>)
  <2>1. th' = [th EXCEPT ![t] = Idle] BY <1>6 DEF Continue
  <2>2. breaks' \in Nat BY DEF SubInv
  <2> QED BY <1>1, <1>2, <1>4, <2>1, <2>2, EndStep
<1>7. ASSUME NEW s \in Pending(file), Continue(t, [r EXCEPT !.sub = s], Rest(t))
      PROVE  SubInv' /\ Went(t, s, r.copy, S1, r.delivered)
  <2> DEFINE new == [[r EXCEPT !.sub = s] EXCEPT !.todo = S1]
  <2>1. th' = [th EXCEPT ![t] = new] BY <1>4, <1>5, <1>7 DEF Continue, Rest, Left
  <2>2. s \in Subs BY DEF Pending
  <2>3. S1 \in Todos /\ s \in 0 .. MaxSubs BY <1>3, <1>4, <1>5, <2>2, Ahead1 DEF Subs
  <2> HIDE DEF r
  <2>4. Becomes(new, r, s, r.copy, S1, r.delivered) BY <1>3, <2>3, Becoming DEF Requests
  <2>5. ~r.delivered BY <1>3, <1>4 DEF RequestOK
  <2> HIDE DEF new
  <2>6. RequestOK(new, born, sent, payments)
    BY <1>3, <1>4, <1>5, <2>2, <2>4, <2>5, Advanced
  <2>7. PreviewsOK(previews', born, sent) BY <1>2, <1>3 DEF queues
  <2>8. SubInv' /\ Went(t, s, r.copy, Left(r.todo), r.delivered)
    BY <1>1, <1>2, <1>4, <1>5, <2>1, <2>4, <2>6, <2>7, GoOn DEF r
  <2> QED BY <1>4, <2>8
<1> QED BY <1>1, <1>4, <1>6, <1>7 DEF PickPending

---------------------------------------------------------------------------
LEMMA Beginnings ==
  ASSUME NEW op \in Ops
  PROVE  /\ Steps(op) \in Doing(op) /\ Steps(op) # <<>> /\ Steps(op) \notin Runs \cup Unlaunched
         /\ Ahead(Steps(op)) \notin {"save", "run"}
         /\ op = "activate" => Steps(op) \in Unmade
         /\ op = "pending" => Steps(op) = P1 /\ Ahead(Steps(op)) # "start"
         /\ HasAdd(Steps(op)) => op \in {"add", "convert", "activate"}
<1> USE SubscriptionsAssumption, Activation, OtherWork, AnyOther, Additions
        DEF Doing, None, Unmade, Unlaunched, Runs
<1>1. CASE op = "convert"
  <2>1. Steps(op) = C1 BY <1>1 DEF Steps, C1
  <2> QED BY <1>1, <2>1
<1>2. CASE op = "draft"
  <2>1. Steps(op) = D1 BY <1>2 DEF Steps, D1
  <2> QED BY <1>2, <2>1
<1>3. CASE op = "activate"
  <2>1. Steps(op) = A1 BY <1>3 DEF Steps, A1
  <2> QED BY <1>3, <2>1
<1>4. CASE op = "run"
  <2>1. Steps(op) = S1 BY <1>4 DEF Steps, S1
  <2> QED BY <1>4, <2>1
<1>5. CASE op = "pending"
  <2>1. Steps(op) = P1 BY <1>5 DEF Steps, P1
  <2> QED BY <1>5, <2>1
<1>6. CASE op = "review"
  <2>1. Steps(op) = V1 BY <1>6 DEF Steps, V1
  <2> QED BY <1>6, <2>1
<1>7. CASE op \in {"add", "verify", "cancel", "email", "record"}
  <2>1. Steps(op) = O1(op) BY <1>7 DEF Steps, O1
  <2> QED BY <1>7, <2>1
<1> QED BY <1>1, <1>2, <1>3, <1>4, <1>5, <1>6, <1>7

LEMMA RoomToAsk ==
  ASSUME SubInv, NEW t \in Threads, NEW new, th' = [th EXCEPT ![t] = new], born' = born,
         HasAdd(new.todo) => Len(born) + Cardinality(Adding) < MaxSubs
  PROVE  Room'
<1>1. CASE ~HasAdd(new.todo) BY <1>1, RoomStays
<1>2. CASE HasAdd(new.todo)
  <2>1. Adding' \subseteq Adding \cup {t} BY DEF Adding, HasAdd, SubInv
  <2>2. Adding \subseteq Threads BY DEF Adding
  <2>3. IsFiniteSet(Adding) BY <2>2, SubscriptionsAssumption, FS_Subset
  <2>4. IsFiniteSet(Adding \cup {t}) /\ Cardinality(Adding \cup {t}) <= Cardinality(Adding) + 1
    <3>1. Cardinality(Adding) \in Nat BY <2>3, FS_CardinalityType
    <3>2. /\ IsFiniteSet(Adding \cup {t})
          /\ Cardinality(Adding \cup {t}) = IF t \in Adding THEN Cardinality(Adding) ELSE Cardinality(Adding)+1
      BY <2>3, FS_AddElement
    <3> QED BY <3>1, <3>2
  <2>5. Cardinality(Adding') <= Cardinality(Adding \cup {t}) /\ IsFiniteSet(Adding') BY <2>1, <2>4, FS_Subset
  <2>6. Cardinality(Adding') \in Nat /\ Cardinality(Adding) \in Nat /\ Cardinality(Adding \cup {t}) \in Nat
    BY <2>3, <2>4, <2>5, FS_CardinalityType
  <2>7. Len(born) \in Nat /\ MaxSubs \in Nat BY SubscriptionsAssumption DEF SubInv
  <2>8. Len(born) + Cardinality(Adding') <= MaxSubs BY <1>2, <2>4, <2>5, <2>6, <2>7
  <2> QED BY <2>8 DEF Room
<1> QED BY <1>1, <1>2

LEMMA RequestStep ==
  ASSUME SubInv, NEW t \in Threads, Request(t), alone' \in BOOLEAN, UNCHANGED breaks
  PROVE  /\ SubInv' /\ ~Busy(t) /\ byId \subseteq byId'
         /\ UNCHANGED <<queues, file, world, born, sent, heard, acked>>
         /\ \A u \in Threads \ {t} : th'[u] = th[u]
         /\ th'[t].op \in Ops /\ th'[t].todo = Steps(th'[t].op)
         /\ th'[t].op = "run" => th'[t].sub \in byId'
<1>1. PICK op \in Ops, who \in Customers, plan \in Plans, ref \in Refs \cup {None},
           asked \in BOOLEAN, p \in Pilots, s \in Subs :
        LET paying == op \in {"add", "convert", "activate"}
            quoting == op \in {"draft", "activate", "review"}
        IN /\ ~Busy(t) /\ requests < MaxRequests
           /\ paying => Len(born) + Cardinality(Adding) < MaxSubs
           \* an argument an operation does not take is fixed
           /\ ~quoting => p = CHOOSE q \in Pilots : TRUE
           /\ op # "run" => s = 1
           /\ op = "convert" => plan # "trial"
           /\ op \notin {"add", "activate", "convert"} => plan = "paid"
           /\ ~paying => ~asked
           /\ ~paying /\ op # "verify" => ref = None
           /\ plan = "trial" => ref = None /\ ~asked
           /\ op = "activate" /\ plan # "trial" => ref # None
           /\ th' = [th EXCEPT ![t] =
                [Idle EXCEPT !.op = op, !.who = who, !.plan = plan, !.ref = ref,
                             !.confirm = plan # "trial" /\ (Confirmed(op, plan) \/ asked),
                             !.quote = IF quoting THEN p ELSE None,
                             !.sub = IF op = "run" THEN s ELSE 0, !.todo = Steps(op)]]
           /\ byId' = IF op = "run" THEN byId \cup {s} ELSE byId
           /\ requests' = requests + 1
           /\ UNCHANGED <<queues, file, world, born, sent, heard, acked>>
  BY DEF Request
<1> DEFINE conf == plan # "trial" /\ (Confirmed(op, plan) \/ asked)
           quo == IF op \in {"draft", "activate", "review"} THEN p ELSE None
           x == IF op = "run" THEN s ELSE 0
           todo == Steps(op)
           new == [Idle EXCEPT !.op = op, !.who = who, !.plan = plan, !.ref = ref,
                             !.confirm = conf, !.quote = quo, !.sub = x, !.todo = todo]
<1>2. th' = [th EXCEPT ![t] = new] BY <1>1
<1>3. /\ todo \in Doing(op) /\ todo # <<>> /\ todo \notin Runs
      /\ op = "activate" => todo \in Unmade
      /\ op = "pending" => todo = P1
      /\ HasAdd(todo) => op \in {"add", "convert", "activate"}
  BY Beginnings
<1>4. conf \in BOOLEAN /\ quo \in Pilots \cup {None} /\ x \in 0 .. MaxSubs /\ todo \in Todos
  BY <1>3, Ahead1, SubscriptionsAssumption DEF Subs
<1>5. op = "activate" /\ plan # "trial" => conf BY DEF Confirmed
<1>6. IF op \in {"draft", "activate", "review"} THEN quo \in Pilots ELSE quo = None OBVIOUS
<1>7. op = "run" => x \in Subs OBVIOUS
<1>8. op = "run" => x \in byId' BY <1>1
<1> HIDE DEF conf, quo, x, todo
<1>9. RequestOK(Idle, born, sent, payments) /\ Idle.delivered = FALSE /\ Idle \in Requests
      /\ FileOK(Idle.copy, born, sent, payments)
  <2>1. RequestOK(Idle, born, sent, payments) BY IdleOK DEF SubInv
  <2>2. Idle.delivered = FALSE BY DEF Idle
  <2> QED BY <2>1, <2>2 DEF RequestOK
<1>10. /\ new \in Requests /\ new.op = op /\ new.who = who /\ new.plan = plan /\ new.confirm = conf
       /\ new.quote = quo /\ new.sub = x /\ new.todo = todo /\ new.delivered = FALSE
       /\ new.copy = Idle.copy
  BY <1>4, <1>9 DEF Requests
<1> HIDE DEF new
<1>11. RequestOK(new, born, sent, payments)
  BY <1>3, <1>5, <1>6, <1>7, <1>9, <1>10, SubscriptionsAssumption DEF RequestOK
<1>12. Room' BY <1>1, <1>2, <1>3, <1>10, RoomToAsk
<1>13. byId' \subseteq Subs /\ byId \subseteq byId' BY <1>1 DEF SubInv
<1>14. UNCHANGED <<queues, file, world, born, sent, heard, acked>> /\ ~Busy(t) BY <1>1
<1>15. breaks' \in Nat /\ FileOK(file', born, sent, payments) /\ PreviewsOK(previews', born, sent)
  BY <1>14 DEF SubInv, queues
<1>16. SubInv' BY <1>2, <1>11, <1>12, <1>13, <1>14, <1>15, Quietly
<1>17. th'[t] = new /\ \A u \in Threads \ {t} : th'[u] = th[u] BY <1>2 DEF SubInv
<1> QED BY <1>8, <1>10, <1>13, <1>14, <1>16, <1>17 DEF todo

LEMMA BreakStep ==
  ASSUME SubInv, NEW t \in Threads, Break(t)
  PROVE  SubInv' /\ th'[t] = Idle /\ \A u \in Threads \ {t} : th'[u] = th[u]
<1>1. breaks' \in Nat /\ alone' \in BOOLEAN BY DEF Break, SubInv
<1> QED BY <1>1, EndStep DEF Break

LEMMA WorldStep ==
  ASSUME SubInv, (\E ref \in Refs : CustomerPays(ref)) \/ \E s \in Subs : Expire(s)
  PROVE  SubInv'
<1>1. /\ payments \subseteq payments' /\ payments' \subseteq Refs /\ expired' \subseteq Subs
      /\ UNCHANGED <<queues, file, th, born, sent, heard, byId, acked, alone, breaks>>
  BY DEF CustomerPays, Expire, SubInv
<1>2. Longer(born, sent, payments, born, sent, payments') BY <1>1 DEF SubInv, Longer
<1>3. born \in Seq(Birth) /\ sent \in [Subs -> Nat] BY DEF SubInv
<1>4. FileOK(file, born, sent, payments') BY <1>2, <1>3, FileStands DEF SubInv
<1>5. ASSUME NEW t \in Threads PROVE RequestOK(th[t], born, sent, payments')
  BY <1>2, <1>3, RequestStands DEF SubInv
<1>6. SubInv' <=>
        (/\ born' \in Seq(Birth) /\ sent' \in [Subs -> Nat] /\ heard' \in [Subs -> Nat]
         /\ payments' \subseteq Refs
         /\ expired' \subseteq Subs /\ byId' \subseteq Subs /\ alone' \in BOOLEAN /\ breaks' \in Nat
         /\ Room'
         /\ FileOK(file', born', sent', payments')
         /\ th' \in [Threads -> Requests]
         /\ \A u \in Threads : RequestOK(th'[u], born', sent', payments')
         /\ \A s \in Subs : sent'[s] > 0 => Owed(s, born')
         /\ PreviewsOK(previews', born', sent'))
  BY DEF SubInv
<1>7. Room' BY <1>1 DEF SubInv, Room, Adding
<1>8. previews' = previews BY <1>1 DEF queues
<1> QED BY <1>1, <1>4, <1>5, <1>6, <1>7, <1>8 DEF SubInv

LEMMA SubStep == SubInv /\ [Next]_vars => SubInv'
<1> SUFFICES ASSUME SubInv, [Next]_vars PROVE SubInv' OBVIOUS
<1>1. ASSUME NEW t \in Threads, Step(t) PROVE SubInv'
  <2>1. alone' \in BOOLEAN /\ UNCHANGED breaks BY <1>1 DEF Step, SubInv
  <2>2. CASE LoadAndEdit(t) BY <2>1, <2>2, LoadStep
  <2>3. CASE Save(t) BY <2>1, <2>3, SaveStep
  <2>4. CASE StartRun(t)
    <3>1. CASE th' = [th EXCEPT ![t] = Idle]
      <4>1. breaks' \in Nat BY <2>1 DEF SubInv
      <4> QED BY <2>1, <2>4, <3>1, <4>1, StartCases, EndStep
    <3>2. ASSUME NEW state \in {"ready", "blocked", "executing"}, file.jobs[th[t].sub] # None,
                 th' = [th EXCEPT ![t] = [[th[t] EXCEPT !.copy = Begun(th[t].sub, state), !.delivered = FALSE]
                                             EXCEPT !.todo = After(th[t].op, state)]]
          PROVE  SubInv'
      BY <2>1, <2>4, <3>2, StartCases, StartStep
    <3> QED BY <2>4, <3>1, <3>2, StartCases
  <2>5. CASE Run(t)
    <3>1. PICK outcome \in Outcomes :
               /\ sent' = Sent(th[t].sub, outcome) /\ heard' = Heard(th[t].sub, outcome)
               /\ th' = [th EXCEPT ![t] =
                    [[th[t] EXCEPT !.copy = Settled(th[t].copy, th[t].sub, outcome), !.delivered = (outcome = "sent")]
                       EXCEPT !.todo = Left(th[t].todo)]]
      BY <2>5, RunCases
    <3> QED BY <2>1, <2>5, <3>1, RunCases, RunStep
  <2>6. CASE PickPending(t) BY <2>1, <2>6, PickStep
  <2>7. CASE GetQuote(t) BY <2>1, <2>7, QuoteStep
  <2>8. CASE Review(t) BY <2>1, <2>8, ReviewStep
  <2>9. CASE Mark(t) BY <2>1, <2>9, MarkStep
  <2>10. CASE Request(t) BY <2>1, <2>10, RequestStep
  <2> QED BY <1>1, <2>2, <2>3, <2>4, <2>5, <2>6, <2>7, <2>8, <2>9, <2>10 DEF Step
<1>2. ASSUME NEW t \in Threads, Break(t) PROVE SubInv' BY <1>2, BreakStep
<1>3. CASE UNCHANGED vars
  <2>1. SubInv' <=> SubInv
    BY <1>3 DEF SubInv, vars, queues, world, Room, Adding
  <2> QED BY <2>1
<1> QED BY <1>1, <1>2, <1>3, WorldStep DEF Next

LEMMA SubStart == Init => SubInv
<1> SUFFICES ASSUME Init PROVE SubInv OBVIOUS
<1>1. /\ born = <<>> /\ sent = [s \in Subs |-> 0] /\ payments = {} /\ expired = {} /\ byId = {}
      /\ alone = TRUE /\ breaks = 0 /\ file = EmptyFile /\ th = [t \in Threads |-> Idle]
      /\ previews = [p \in Pilots |-> NoPreview]
  BY DEF Init, QueueInit
<1>2. sent \in [Subs -> Nat] /\ heard \in [Subs -> Nat] /\ \A s \in Subs : sent[s] = 0 BY <1>1 DEF Init
<1>3. FileOK(file, born, sent, payments) BY <1>1, <1>2, EmptyFileOK
<1>4. RequestOK(Idle, born, sent, payments) /\ ~HasAdd(Idle.todo) BY <1>2, IdleOK
<1>5. Idle \in Requests BY <1>4 DEF RequestOK
<1>6. Adding = {} BY <1>1, <1>4 DEF Adding, HasAdd
<1>7. Room BY <1>1, <1>6, FS_EmptySet, SubscriptionsAssumption DEF Room
<1>8. PreviewsOK(previews, born, sent)
  <2>1. NoPreview \in Preview(0 .. MaxSubs) /\ NoPreview.sub = 0 /\ NoPreview.fulfilled = FALSE
    BY SubscriptionsAssumption DEF NoPreview, Preview
  <2> HIDE DEF NoPreview
  <2> QED BY <1>1, <2>1 DEF PreviewsOK
<1> HIDE DEF Idle
<1>9. th \in [Threads -> Requests] /\ \A t \in Threads : th[t] = Idle BY <1>1, <1>5
<1> QED BY <1>1, <1>2, <1>3, <1>4, <1>7, <1>8, <1>9 DEF SubInv

\* For every number of threads, customers, references, requests and subscriptions: a brief is
\* only sent for a subscription that was paid for or a trial, which stays a delivery target
\* while it is active if its plan has targets, and a preview names only subscriptions activated from it, paid for or
\* a trial (SentWasEarned).
THEOREM BriefsAreEarned == Spec => []SentWasEarned
<1>1. SubInv => SentWasEarned
  <2> SUFFICES ASSUME SubInv PROVE SentWasEarned OBVIOUS
  <2>1. FileOK(file, born, sent, payments) /\ born \in Seq(Birth) /\ file \in Files BY DEF SubInv, FileOK
  <2>2. ASSUME NEW s \in Subs, sent[s] > 0
        PROVE  /\ born[s].earned
               /\ file.subs[s].status = "active" /\ s \notin expired /\ file.subs[s].plan \in TargetPlans
                    => Eligible(file, s)
    <3>1. Owed(s, born) BY <2>2 DEF SubInv
    <3>2. born[s].earned /\ born[s].quote # None BY <3>1, SubscriptionsAssumption DEF Owed
    <3>3. file.subs[s].status = "active" => file.subs[s] # NoRecord BY DEF NoRecord, None
    <3>4. file.subs[s] # NoRecord /\ file.subs[s].plan # "trial"
            => file.subs[s].verified /\ file.subs[s].ref \in payments
      BY <2>1, <3>2 DEF FileOK
    <3> QED BY <3>2, <3>3, <3>4 DEF Eligible
  <2>3. \A p \in Pilots : previews[p].sub > 0 => born[previews[p].sub].quote = p /\ born[previews[p].sub].earned
    BY DEF SubInv, PreviewsOK
  <2> QED BY <2>2, <2>3 DEF SentWasEarned
<1> QED BY <1>1, SubStart, SubStep, PTL DEF Spec

---------------------------------------------------------------------------
(***************************************************************************)
(* The service while its requests do not overlap                           *)
(***************************************************************************)
\* What holds of the file and the one request there is.
Before(t) ==
    /\ Keeps(file, acked) /\ Spent(file, sent, byId)
    /\ Busy(t) => Alright(th[t], file, sent, heard, byId, acked, breaks)
    /\ ~Busy(t) /\ breaks = 0 => CleanBut(file, heard, 0)

LEMMA ServedAlone ==
  ASSUME SubInv, SerialInv, NEW t \in Threads, alone, \A u \in Threads \ {t} : ~Busy(u)
  PROVE  Before(t)
<1>1. ~Busy(t) => \A u \in Threads : ~Busy(u) OBVIOUS
<1> QED BY <1>1 DEF SerialInv, Before

LEMMA StaysSerial ==
  ASSUME NEW t \in Threads, \A u \in Threads \ {t} : ~Busy(u) /\ th'[u] = th[u],
         Keeps(file', acked'), Spent(file', sent', byId'),
         th'[t].todo # <<>> => Alright(th'[t], file', sent', heard', byId', acked', breaks'),
         th'[t].todo = <<>> /\ breaks' = 0 => CleanBut(file', heard', 0)
  PROVE  SerialInv'
<1>1. \A u \in Threads \ {t} : th'[u].todo = <<>> BY DEF Busy
<1>2. SerialInv' <=> (alone' =>
        /\ \A v, u \in Threads : th'[v].todo # <<>> /\ th'[u].todo # <<>> => v = u
        /\ Keeps(file', acked') /\ Spent(file', sent', byId')
        /\ \A u \in Threads : th'[u].todo # <<>> => Alright(th'[u], file', sent', heard', byId', acked', breaks')
        /\ breaks' = 0 /\ (\A u \in Threads : ~(th'[u].todo # <<>>)) => CleanBut(file', heard', 0))
  BY DEF SerialInv, Busy
<1>3. \A u \in Threads : th'[u].todo # <<>> => u = t BY <1>1
<1> QED BY <1>2, <1>3

LEMMA NotHolding ==
  ASSUME NEW r, Ahead(r.todo) \notin {"save", "run"}
  PROVE  ~Holding(r)
BY DEF Holding, Ahead

LEMMA KeptKeeps ==
  ASSUME NEW F, NEW G, NEW ak, Keeps(F, ak), Kept(F, G)
  PROVE  Keeps(G, ak)
BY DEF Keeps, Kept

LEMMA IdleTodo == Idle.todo = <<>>
BY DEF Idle

LEMMA SerialSave ==
  ASSUME SubInv, NEW t \in Threads, Before(t), \A u \in Threads \ {t} : ~Busy(u),
         Save(t), alone' \in BOOLEAN, UNCHANGED breaks
  PROVE  SerialInv'
<1> DEFINE r == th[t]
           rest == Left(r.todo)
           C == r.copy
<1>1. Busy(t) /\ Ahead(r.todo) = "save" /\ Head(r.todo) = "save" BY DEF Save, At, Ahead
<1>2. file' = C /\ acked' = acked \cup Promised(r) /\ UNCHANGED <<born, sent, heard, byId>> BY DEF Save
<1>3. Went(t, r.sub, C, rest, r.delivered) BY SaveStep
<1>4. r.op \in Ops /\ r.todo \in Doing(r.op) /\ r.todo # <<>> BY <1>1, Serving
<1>5. Holding(r) BY <1>1, <1>4 DEF Holding
<1>6. /\ r.op = "run" => r.sub \in byId
      /\ Keeps(C, acked) /\ Spent(C, sent, byId) /\ Prepared(r, file)
      /\ r.todo \in Runs => (r.sub \in byId \/ sent[r.sub] = 0) /\ C.jobs[r.sub] = "executing"
      /\ r.op = "activate" /\ r.todo \in Unlaunched => sent[r.sub] = 0
      /\ breaks = 0 => CleanBut(C, heard, IF r.todo \in Runs THEN r.sub ELSE 0)
  BY <1>1, <1>5 DEF Before, Alright
<1>7. Keeps(C, acked')
  <2>1. ASSUME NEW s \in Subs, <<"cancelled", s>> \in Promised(r) PROVE C.subs[s].status = "cancelled"
    <3>1. r.op = "cancel" /\ file.subs[s].who = r.who /\ file.subs[s].status = "active"
      BY <2>1 DEF Promised
    <3> QED BY <1>1, <1>6, <3>1 DEF Prepared
  <2>2. ASSUME NEW s \in Subs, <<"verified", s>> \in Promised(r) PROVE C.subs[s].verified
    <3>1. r.op = "verify" /\ s = Last(ActivePaid(C, r.who)) BY <2>2 DEF Promised
    <3> QED BY <1>1, <1>6, <3>1 DEF Prepared
  <2>3. ASSUME NEW s \in Subs, <<"added", s>> \in Promised(r) PROVE C.subs[s] # NoRecord
    BY <2>3 DEF Promised
  <2> HIDE DEF C, r
  <2> QED BY <1>2, <1>6, <2>1, <2>2, <2>3 DEF Keeps, r
<1>8. /\ rest = <<>> \/ rest \in Doing(r.op)
      /\ rest \in Runs <=> r.todo \in Runs
      /\ rest # <<>> => (rest \in Runs <=> Ahead(rest) = "run") /\ Ahead(rest) # "save"
      /\ r.op = "activate" /\ rest \in Unlaunched => r.todo \in Unlaunched
      /\ r.op = "pending" /\ rest # <<>> => Ahead(rest) # "start"
  BY <1>1, <1>4, AfterSave
<1> HIDE DEF r, rest, C
<1>9. CASE rest = <<>>
  <2>1. th'[t].todo = <<>> /\ \A u \in Threads \ {t} : th'[u] = th[u] BY <1>3, <1>9, IdleTodo DEF Went
  <2>2. r.todo \notin Runs BY <1>8, <1>9, TodoNames
  <2>3. breaks' = 0 => CleanBut(file', heard', 0) BY <1>2, <1>6, <2>2
  <2> QED BY <1>2, <1>6, <1>7, <2>1, <2>3, StaysSerial
<1>10. CASE rest # <<>>
  <2> DEFINE new == th'[t]
  <2>1. Becomes(new, r, r.sub, C, rest, r.delivered) /\ \A u \in Threads \ {t} : th'[u] = th[u]
    BY <1>3, <1>10 DEF Went, r
  <2> HIDE DEF new
  <2>2. new.op = r.op /\ new.sub = r.sub /\ new.copy = C /\ new.todo = rest BY <2>1 DEF Becomes
  <2>3. Holding(new) <=> rest \in Runs BY <1>8, <1>10, <2>2 DEF Holding, Ahead
  <2>4. Head(new.todo) # "save" /\ (r.op = "pending" => Head(new.todo) # "start")
    BY <1>8, <1>10, <2>2 DEF Ahead
  <2>5. Prepared(new, C) BY <2>4 DEF Prepared
  <2>6. breaks = 0 => IF Holding(new) THEN CleanBut(C, heard, IF rest \in Runs THEN r.sub ELSE 0)
                      ELSE CleanBut(C, heard, 0)
    BY <1>6, <1>8, <2>3
  <2>7. Alright(new, C, sent, heard, byId, acked', breaks)
    BY <1>6, <1>7, <1>8, <2>2, <2>4, <2>5, <2>6 DEF Alright
  <2>8. new.todo # <<>> BY <1>10, <2>2
  <2> QED BY <1>2, <1>6, <1>7, <2>1, <2>7, <2>8, StaysSerial DEF new
<1> QED BY <1>9, <1>10

\* A request that ends and leaves the file as it was.
LEMMA SerialEnd ==
  ASSUME NEW t \in Threads, Before(t), Busy(t), ~Holding(th[t]), \A u \in Threads \ {t} : ~Busy(u),
         th'[t] = Idle, \A u \in Threads \ {t} : th'[u] = th[u],
         UNCHANGED <<file, sent, heard, byId, acked, breaks>>
  PROVE  SerialInv'
<1>1. breaks = 0 => CleanBut(file, heard, 0) BY DEF Before, Alright
<1> HIDE DEF Idle
<1>2. th'[t].todo = <<>> BY IdleTodo
<1> QED BY <1>1, <1>2, StaysSerial DEF Before

\* The copy of an edit, seen by the save that follows.
LEMMA SerialEdited ==
  ASSUME NEW t \in Threads, Before(t), Busy(t), ~Holding(th[t]), \A u \in Threads \ {t} : ~Busy(u),
         NEW sub, NEW C, NEW rest, rest # <<>>, Ahead(rest) = "save", rest \notin Runs,
         Went(t, sub, C, rest, th[t].delivered), th[t].op # "run",
         UNCHANGED <<file, sent, heard, byId, acked, breaks>>,
         Kept(file, C), Spent(C, sent, byId), \A s \in Subs : C.jobs[s] = "executing" => file.jobs[s] = "executing",
         th[t].op = "activate" => sent[sub] = 0,
         th[t].op = "cancel" => \A s \in Subs : file.subs[s].who = th[t].who /\ file.subs[s].status = "active"
                                  => C.subs[s].status = "cancelled",
         th[t].op = "verify" => C.subs[Last(ActivePaid(C, th[t].who))].verified
  PROVE  SerialInv'
<1> DEFINE r == th[t]
           new == th'[t]
<1>1. Becomes(new, r, sub, C, rest, r.delivered) /\ \A u \in Threads \ {t} : th'[u] = th[u] BY DEF Went
<1>2. Keeps(file, acked) /\ Spent(file, sent, byId) BY DEF Before
<1>3. breaks = 0 => CleanBut(file, heard, 0) BY DEF Before, Alright
<1>4. Keeps(C, acked) BY <1>2, KeptKeeps
<1>5. breaks = 0 => CleanBut(C, heard, 0) BY <1>3 DEF CleanBut, Kept
<1> HIDE DEF new
<1>6. new.op = r.op /\ new.sub = sub /\ new.copy = C /\ new.todo = rest /\ new.who = r.who
  BY <1>1 DEF Becomes
<1>7. Head(new.todo) = "save" /\ new.todo # <<>> /\ new.todo \notin Runs BY <1>6 DEF Ahead
<1>8. Prepared(new, file) BY <1>6 DEF Prepared
<1>9. Holding(new) BY <1>7 DEF Holding
<1>10. Alright(new, file, sent, heard, byId, acked, breaks) BY <1>4, <1>5, <1>6, <1>7, <1>8, <1>9 DEF Alright
<1>11. Alright(new, file', sent', heard', byId', acked', breaks') BY <1>10
<1>12. Keeps(file', acked') /\ Spent(file', sent', byId') BY <1>2
<1> QED BY <1>1, <1>7, <1>11, <1>12, StaysSerial DEF new

LEMMA SerialLoad ==
  ASSUME SubInv, NEW t \in Threads, Before(t), \A u \in Threads \ {t} : ~Busy(u),
         LoadAndEdit(t), alone' \in BOOLEAN, UNCHANGED breaks
  PROVE  SerialInv'
<1> DEFINE r == th[t]
           rest == Left(r.todo)
<1>1. Busy(t) /\ UNCHANGED <<queues, file, world, sent, heard, byId, acked>> /\ Ahead(r.todo) \in LoadEdits
  BY LoadCases
<1>2. ~Holding(r) BY <1>1, NotHolding DEF LoadEdits
<1>3. r.op \in Ops /\ r.todo \in Doing(r.op) /\ r.todo # <<>> /\ sent \in [Subs -> Nat] BY <1>1, Serving
<1>4. /\ rest # <<>> /\ Ahead(rest) = "save" /\ rest \notin Runs /\ r.op # "run"
      /\ r.op = "activate" => (r.todo \in Unlaunched <=> Ahead(r.todo) # "add")
      /\ r.op \in {"cancel", "verify"} => Ahead(r.todo) = r.op
      /\ Ahead(r.todo) = "queue" => r.op = "activate"
  BY <1>1, <1>3, AfterEdit
<1>5. r.op = "activate" /\ Ahead(r.todo) # "add" => sent[r.sub] = 0
  BY <1>1, <1>4 DEF Before, Alright
<1>6. Spent(file, sent, byId) BY DEF Before
<1>7. CASE th' = [th EXCEPT ![t] = Idle] /\ born' = born
  <2>1. th'[t] = Idle /\ \A u \in Threads \ {t} : th'[u] = th[u] BY <1>7 DEF SubInv
  <2> QED BY <1>1, <1>2, <2>1, SerialEnd
<1>8. CASE /\ Ahead(r.todo) = "add" /\ Accepts("add", r, file)
           /\ th' = [th EXCEPT ![t] = [[r EXCEPT !.copy = Edited("add", r, file),
                                                 !.sub = Len(born) + 1]
                                         EXCEPT !.todo = rest]]
           /\ born' = Append(born, [who |-> r.who, quote |-> r.quote,
                                    earned |-> r.plan = "trial" \/ r.ref \in payments])
  <2> DEFINE C == Edited("add", r, file)
  <2>1. /\ sent[Len(born) + 1] = 0 /\ Kept(file, C) /\ C.jobs = file.jobs
        /\ Went(t, Len(born) + 1, C, rest, r.delivered)
    BY <1>1, <1>8, AddStep
  <2> HIDE DEF C
  <2>2. Spent(C, sent, byId) BY <1>6, <2>1 DEF Spent
  <2>3. r.op \notin {"cancel", "verify"} BY <1>4, <1>8
  <2>4. \A s \in Subs : C.jobs[s] = "executing" => file.jobs[s] = "executing" BY <2>1
  <2>5. UNCHANGED <<file, sent, heard, byId, acked, breaks>> BY <1>1
  <2> HIDE DEF r, rest
  <2>6. r = th[t] BY DEF r
  <2> DEFINE x == Len(born) + 1
  <2>7. sent[x] = 0 /\ Went(t, x, C, rest, th[t].delivered) BY <2>1, <2>6
  <2> HIDE DEF x
  <2> QED BY <1>1, <1>2, <1>4, <2>1, <2>2, <2>3, <2>4, <2>5, <2>6, <2>7, SerialEdited
<1>9. ASSUME NEW edit \in LoadEdits \ {"add"},
             Ahead(r.todo) = edit, Accepts(edit, r, file), born' = born,
             th' = [th EXCEPT ![t] = [[r EXCEPT !.copy = Edited(edit, r, file), !.sub = r.sub]
                                        EXCEPT !.todo = rest]]
      PROVE  SerialInv'
  <2> DEFINE C == Edited(edit, r, file)
  <2>1. Went(t, r.sub, C, rest, r.delivered) BY <1>1, <1>9, EditStep
  <2>2. /\ Kept(file, C)
        /\ \A s \in Subs : C.jobs[s] = IF edit = "queue" /\ s = r.sub THEN "queued" ELSE file.jobs[s]
        /\ edit = "cancel" => \A s \in Subs : file.subs[s].who = r.who /\ file.subs[s].status = "active"
                  => C.subs[s].status = "cancelled"
        /\ edit = "verify" => C.subs[Last(ActivePaid(C, r.who))].verified
    BY <1>1, <1>9, EditResult
  <2> HIDE DEF C
  <2>3. edit = "queue" => sent[r.sub] = 0 BY <1>4, <1>5, <1>9
  <2>4. Spent(C, sent, byId)
    <3> SUFFICES ASSUME NEW s \in Subs \ byId
                 PROVE  sent[s] <= 1 /\ (sent[s] = 1 => C.jobs[s] \in Tried)
      BY DEF Spent
    <3>1. sent[s] <= 1 /\ (sent[s] = 1 => file.jobs[s] \in Tried) BY <1>6 DEF Spent
    <3> QED BY <2>2, <2>3, <3>1
  <2>5. \A s \in Subs : C.jobs[s] = "executing" => file.jobs[s] = "executing" BY <2>2
  <2>6. UNCHANGED <<file, sent, heard, byId, acked, breaks>> BY <1>1
  <2>7. /\ r.op = "cancel" => edit = "cancel"
        /\ r.op = "verify" => edit = "verify"
        /\ r.op = "activate" => sent[r.sub] = 0
    BY <1>4, <1>5, <1>9
  <2> HIDE DEF r, rest
  <2>8. r = th[t] BY DEF r
  <2> DEFINE x == r.sub
  <2>9. (r.op = "activate" => sent[x] = 0) /\ Went(t, x, C, rest, th[t].delivered) BY <2>1, <2>7, <2>8
  <2> HIDE DEF x
  <2>10. /\ th[t].op = "activate" => sent[x] = 0
         /\ th[t].op # "run" /\ ~Holding(th[t])
    BY <1>2, <1>4, <2>8, <2>9
  <2>11. th[t].op = "cancel" => \A s \in Subs : file.subs[s].who = th[t].who /\ file.subs[s].status = "active"
                                  => C.subs[s].status = "cancelled"
    BY <2>2, <2>7, <2>8
  <2>12. th[t].op = "verify" => C.subs[Last(ActivePaid(C, th[t].who))].verified BY <2>2, <2>7, <2>8
  <2>13. Went(t, x, C, rest, th[t].delivered) BY <2>9
  <2>14. Kept(file, C) BY <2>2
  <2>15. rest # <<>> /\ Ahead(rest) = "save" /\ rest \notin Runs BY <1>4
  <2> HIDE <1>9, <2>2, <2>7, <2>8, <2>9
  <2> QED BY <1>1, <2>4, <2>5, <2>6, <2>10, <2>11, <2>12, <2>13, <2>14, <2>15, SerialEdited
<1> QED BY <1>7, <1>8, <1>9, LoadCases

LEMMA SerialStart ==
  ASSUME SubInv, NEW t \in Threads, Before(t), \A u \in Threads \ {t} : ~Busy(u),
         StartRun(t), alone' \in BOOLEAN, UNCHANGED breaks
  PROVE  SerialInv'
<1> DEFINE r == th[t]
<1>1. Busy(t) /\ UNCHANGED <<file, sent, heard, byId, acked>> /\ Ahead(r.todo) = "start" /\ r.sub \in Subs
  BY StartCases
<1>2. ~Holding(r) BY <1>1, NotHolding
<1>3. r.op \in Ops /\ r.todo \in Doing(r.op) /\ r.todo # <<>> /\ sent \in [Subs -> Nat] BY <1>1, Serving
<1>4. /\ r.op \in {"run", "pending", "activate"}
      /\ r.op = "activate" => r.todo \in Unlaunched
  BY <1>1, <1>3, BeforeRun
<1>5. Keeps(file, acked) /\ Spent(file, sent, byId) BY DEF Before
<1>6. /\ r.op = "run" => r.sub \in byId
      /\ r.op = "activate" => sent[r.sub] = 0
      /\ r.op = "pending" => file.jobs[r.sub] \in {"queued", "ready"}
      /\ breaks = 0 => CleanBut(file, heard, 0)
  BY <1>1, <1>2, <1>4 DEF Before, Alright, Ahead
<1>7. r.sub \in byId \/ sent[r.sub] = 0
  <2>1. CASE r.op = "pending" /\ r.sub \notin byId
    <3>1. sent[r.sub] <= 1 /\ (sent[r.sub] = 1 => file.jobs[r.sub] \in Tried) BY <1>1, <1>5, <2>1 DEF Spent
    <3>2. file.jobs[r.sub] \notin Tried BY <1>6, <2>1 DEF Tried
    <3>3. sent[r.sub] \in Nat BY <1>1, <1>3
    <3> QED BY <3>1, <3>2, <3>3
  <2> QED BY <1>4, <1>6, <2>1
<1>8. CASE th' = [th EXCEPT ![t] = Idle]
  <2>1. th'[t] = Idle /\ \A u \in Threads \ {t} : th'[u] = th[u] BY <1>8 DEF SubInv
  <2> QED BY <1>1, <1>2, <2>1, SerialEnd
<1>9. ASSUME NEW state \in {"ready", "blocked", "executing"}, file.jobs[r.sub] # None,
             th' = [th EXCEPT ![t] = [[r EXCEPT !.copy = Begun(r.sub, state), !.delivered = FALSE]
                                         EXCEPT !.todo = After(r.op, state)]]
      PROVE  SerialInv'
  <2> DEFINE C == Begun(r.sub, state)
             rest == After(r.op, state)
             new == th'[t]
  <2>1. UNCHANGED <<queues, file, world, born, sent, heard, byId, breaks>> BY StartCases
  <2>2. Went(t, r.sub, C, rest, FALSE) BY <1>1, <1>9, <2>1, StartStep
  <2>3. /\ Kept(file, C)
        /\ \A s \in Subs : C.jobs[s] = IF s = r.sub THEN state ELSE file.jobs[s]
    BY <1>1, <1>9, BegunIs
  <2>4. /\ rest # <<>> /\ Ahead(rest) = "save" /\ rest \notin Unlaunched
        /\ rest \in Runs <=> state = "executing"
    BY <1>3, <1>4, AfterIs
  <2> HIDE DEF C, rest, r
  <2>5. Becomes(new, r, r.sub, C, rest, FALSE) /\ \A u \in Threads \ {t} : th'[u] = th[u]
    BY <2>2, <2>4 DEF Went, r
  <2> HIDE DEF new
  <2>6. new.op = r.op /\ new.sub = r.sub /\ new.copy = C /\ new.todo = rest BY <2>5 DEF Becomes
  <2>7. Keeps(C, acked) BY <1>5, <2>3, KeptKeeps
  <2>8. Spent(C, sent, byId)
    <3> SUFFICES ASSUME NEW s \in Subs \ byId
                 PROVE  sent[s] <= 1 /\ (sent[s] = 1 => C.jobs[s] \in Tried)
      BY DEF Spent
    <3>1. sent[s] <= 1 /\ (sent[s] = 1 => file.jobs[s] \in Tried) BY <1>5 DEF Spent
    <3>2. s = r.sub => sent[s] = 0 BY <1>7
    <3> QED BY <2>3, <3>1, <3>2
  <2>9. Head(new.todo) = "save" /\ new.todo # <<>> BY <2>4, <2>6 DEF Ahead
  <2>10. Holding(new) BY <2>9 DEF Holding
  <2>11. breaks = 0 => CleanBut(C, heard, IF rest \in Runs THEN r.sub ELSE 0)
    <3> SUFFICES ASSUME breaks = 0 PROVE CleanBut(C, heard, IF rest \in Runs THEN r.sub ELSE 0) OBVIOUS
    <3>1. \A s \in Subs : Len(C.log) < LogKept => Rows(C, s) = heard[s] BY <1>6, <2>3 DEF CleanBut, Kept
    <3>2. \A s \in Subs : file.jobs[s] # "executing"
      <4>1. \A s \in Subs : s # 0 BY SubscriptionsAssumption DEF Subs
      <4> QED BY <1>6, <4>1 DEF CleanBut
    <3>3. CASE rest \in Runs BY <2>3, <3>1, <3>2, <3>3 DEF CleanBut
    <3>4. CASE rest \notin Runs BY <2>3, <2>4, <3>1, <3>2, <3>4 DEF CleanBut
    <3> QED BY <3>3, <3>4
  <2>12. Prepared(new, file) BY <1>4, <2>6 DEF Prepared
  <2>13. rest \in Runs => (r.sub \in byId \/ sent[r.sub] = 0) /\ C.jobs[r.sub] = "executing"
    BY <1>1, <1>7, <2>3, <2>4
  <2>14. Alright(new, file, sent, heard, byId, acked, breaks)
    BY <1>6, <2>4, <2>6, <2>7, <2>8, <2>9, <2>10, <2>11, <2>12, <2>13 DEF Alright
  <2>15. Alright(new, file', sent', heard', byId', acked', breaks') /\ Keeps(file', acked') /\ Spent(file', sent', byId')
    BY <1>1, <1>5, <2>14
  <2> QED BY <2>5, <2>9, <2>15, StaysSerial DEF new
<1> QED BY <1>8, <1>9, StartCases

LEMMA SerialRun ==
  ASSUME SubInv, NEW t \in Threads, Before(t), \A u \in Threads \ {t} : ~Busy(u),
         Run(t), alone' \in BOOLEAN, UNCHANGED breaks
  PROVE  SerialInv'
<1> DEFINE r == th[t]
           rest == Left(r.todo)
           new == th'[t]
<1>1. /\ Busy(t) /\ Ahead(r.todo) = "run" /\ r.sub \in Subs /\ Owed(r.sub, born)
      /\ UNCHANGED <<queues, file, world, born, byId, acked>>
  BY RunCases
<1>2. PICK outcome \in Outcomes :
         /\ sent' = Sent(r.sub, outcome) /\ heard' = Heard(r.sub, outcome)
         /\ th' = [th EXCEPT ![t] =
              [[r EXCEPT !.copy = Settled(r.copy, r.sub, outcome), !.delivered = (outcome = "sent")]
                 EXCEPT !.todo = Left(r.todo)]]
  BY RunCases
<1> DEFINE C == Settled(r.copy, r.sub, outcome)
           d == (outcome = "sent")
<1>3. /\ r.op \in Ops /\ r.todo \in Doing(r.op) /\ r.todo # <<>> /\ sent \in [Subs -> Nat]
      /\ FileOK(r.copy, born, sent, payments)
  BY <1>1, Serving
<1>4. /\ rest # <<>> /\ Ahead(rest) = "save" /\ rest \notin Runs /\ r.todo \in Runs
      /\ r.op \in {"run", "pending", "activate"}
      /\ r.op = "activate" => rest \notin Unlaunched
  BY <1>1, <1>3, AfterRun
<1>5. Holding(r) /\ Head(r.todo) = "run" BY <1>1, <1>3 DEF Holding, Ahead
<1>6. /\ Keeps(file, acked) /\ Spent(file, sent, byId)
      /\ r.op = "run" => r.sub \in byId
      /\ Keeps(r.copy, acked) /\ Spent(r.copy, sent, byId)
      /\ r.sub \in byId \/ sent[r.sub] = 0
      /\ file.jobs[r.sub] = "executing"
      /\ breaks = 0 => CleanBut(r.copy, heard, r.sub)
  BY <1>1, <1>4, <1>5 DEF Before, Alright
<1>7. Went(t, r.sub, C, rest, d) BY <1>1, <1>2, RunStep
<1>8. /\ sent' \in [Subs -> Nat]
      /\ \A u \in Subs : sent'[u] = IF u = r.sub /\ outcome \in {"late", "sent"} THEN sent[u] + 1 ELSE sent[u]
      /\ \A u \in Subs : heard'[u] = IF u = r.sub /\ outcome = "sent" THEN heard[u] + 1 ELSE heard[u]
  BY <1>1, <1>2, SentMore
<1>9. /\ C.subs = r.copy.subs
      /\ \A u \in Subs : Len(C.log) < LogKept =>
           /\ Len(r.copy.log) < LogKept
           /\ Rows(C, u) = IF u = r.sub /\ outcome = "sent" THEN Rows(r.copy, u) + 1 ELSE Rows(r.copy, u)
      /\ \A u \in Subs : C.jobs[u] = IF u # r.sub THEN r.copy.jobs[u]
                                     ELSE IF outcome = "sent" THEN "executed" ELSE "blocked"
  <2> DEFINE F == r.copy
             s == r.sub
  <2>1. FileOK(F, born, sent, payments) /\ Owed(s, born) /\ s \in Subs BY <1>1, <1>3
  <2> HIDE DEF F, s
  <2>2. Ran(F, Settled(F, s, outcome), s, outcome) BY <2>1, SettledIs
  <2>3. Ran(r.copy, C, r.sub, outcome) BY <2>2 DEF F, s
  <2> HIDE DEF C, r
  <2> QED BY <2>3 DEF Ran
<1> HIDE DEF C, d, new
<1>10. Becomes(new, r, r.sub, C, rest, d) /\ \A u \in Threads \ {t} : th'[u] = th[u]
  BY <1>4, <1>7 DEF Went, new
<1> HIDE DEF r, rest
<1>11. new.op = r.op /\ new.sub = r.sub /\ new.copy = C /\ new.todo = rest BY <1>10 DEF Becomes
<1>12. Keeps(C, acked) BY <1>6, <1>9 DEF Keeps
<1>13. Spent(file, sent', byId) /\ Spent(C, sent', byId)
  <2> SUFFICES ASSUME NEW s \in Subs \ byId
               PROVE  /\ sent'[s] <= 1 /\ (sent'[s] = 1 => file.jobs[s] \in Tried)
                      /\ (sent'[s] = 1 => C.jobs[s] \in Tried)
    BY DEF Spent
  <2>1. /\ sent[s] <= 1 /\ (sent[s] = 1 => file.jobs[s] \in Tried)
        /\ (sent[s] = 1 => r.copy.jobs[s] \in Tried)
    BY <1>6 DEF Spent
  <2>2. CASE s = r.sub
    <3>1. sent'[s] <= 1 BY <1>6, <1>8, <2>2
    <3>2. file.jobs[s] \in Tried /\ C.jobs[s] \in Tried BY <1>6, <1>9, <2>2 DEF Tried
    <3> QED BY <3>1, <3>2
  <2>3. CASE s # r.sub BY <1>8, <1>9, <2>1, <2>3
  <2> QED BY <2>2, <2>3
<1>14. Head(new.todo) = "save" /\ new.todo # <<>> BY <1>4, <1>11 DEF Ahead
<1>15. Holding(new) BY <1>14 DEF Holding
<1>16. breaks = 0 => CleanBut(C, heard', 0)
  <2> SUFFICES ASSUME breaks = 0, NEW s \in Subs 
                 PROVE  /\ Len(C.log) < LogKept => Rows(C, s) = heard'[s]
                        /\ C.jobs[s] # "executing"
    BY DEF CleanBut
  <2>1. /\ Len(r.copy.log) < LogKept => Rows(r.copy, s) = heard[s]
        /\ (s # r.sub => r.copy.jobs[s] # "executing") BY <1>6 DEF CleanBut
  <2> QED BY <1>8, <1>9, <2>1
<1>17. Prepared(new, file) BY <1>4, <1>11 DEF Prepared
<1>18. Alright(new, file, sent', heard', byId, acked, breaks)
  BY <1>4, <1>6, <1>11, <1>12, <1>13, <1>14, <1>15, <1>16, <1>17 DEF Alright
<1>19. Alright(new, file', sent', heard', byId', acked', breaks') /\ Keeps(file', acked') /\ Spent(file', sent', byId')
  BY <1>1, <1>6, <1>13, <1>18
<1> QED BY <1>10, <1>14, <1>19, StaysSerial DEF new

\* A step that neither loads nor saves: the request's record and the file are as they were.
LEMMA SerialOther ==
  ASSUME SubInv, NEW t \in Threads, Before(t), \A u \in Threads \ {t} : ~Busy(u), Busy(t),
         Ahead(th[t].todo) \in {"quote", "ack", "list", "markDrafted", "markOutcome"},
         Went(t, th[t].sub, th[t].copy, Left(th[t].todo), th[t].delivered)
           \/ Went(t, th[t].sub, th[t].copy, <<>>, th[t].delivered),
         UNCHANGED <<file, sent, heard, byId, acked, breaks>>
  PROVE  SerialInv'
<1> DEFINE r == th[t]
           rest == Left(r.todo)
           new == th'[t]
<1>1. r.op \in Ops /\ r.todo \in Doing(r.op) BY Serving
<1>2. /\ r.todo \notin Runs /\ rest \notin Runs /\ rest \notin Unlaunched /\ r.op # "run"
      /\ r.op # "pending"
      /\ rest # <<>> => Ahead(rest) \notin {"save", "run"}
  BY <1>1, AfterOthers
<1>3. ~Holding(r) BY NotHolding
<1>4. Keeps(file, acked) /\ Spent(file, sent, byId) /\ (breaks = 0 => CleanBut(file, heard, 0))
  BY <1>3 DEF Before, Alright
<1>5. CASE th'[t] = Idle
  <2>1. \A u \in Threads \ {t} : th'[u] = th[u] BY DEF Went
  <2> QED BY <1>3, <1>5, <2>1, SerialEnd
<1>6. CASE th'[t] # Idle
  <2>1. /\ Becomes(new, r, r.sub, r.copy, rest, r.delivered) /\ rest # <<>>
        /\ \A u \in Threads \ {t} : th'[u] = th[u]
    BY <1>6 DEF Went
  <2> HIDE DEF new, r, rest
  <2>2. new.op = r.op /\ new.todo = rest BY <2>1 DEF Becomes
  <2>3. new.todo # <<>> /\ Head(new.todo) \notin {"save", "run"} BY <1>2, <2>1, <2>2 DEF Ahead
  <2>4. ~Holding(new) /\ Prepared(new, file) BY <2>3 DEF Holding, Prepared
  <2>5. Alright(new, file, sent, heard, byId, acked, breaks) BY <1>2, <1>4, <2>2, <2>3, <2>4 DEF Alright
  <2>6. Alright(new, file', sent', heard', byId', acked', breaks') /\ Keeps(file', acked') /\ Spent(file', sent', byId')
    BY <1>4, <2>5
  <2> QED BY <2>1, <2>3, <2>6, StaysSerial DEF new
<1> QED BY <1>5, <1>6

LEMMA SerialPick ==
  ASSUME SubInv, NEW t \in Threads, Before(t), \A u \in Threads \ {t} : ~Busy(u),
         PickPending(t), alone' \in BOOLEAN, UNCHANGED breaks
  PROVE  SerialInv'
<1> DEFINE r == th[t]
           new == th'[t]
<1>1. Busy(t) /\ Ahead(r.todo) = "pending" BY PickStep
<1>2. UNCHANGED <<file, sent, heard, byId, acked, breaks>> BY DEF PickPending
<1>3. r.op \in Ops /\ r.todo \in Doing(r.op) BY <1>1, Serving
<1>4. r.op = "pending" BY <1>1, <1>3, AfterOthers
<1>5. ~Holding(r) BY <1>1, NotHolding
<1>6. Keeps(file, acked) /\ Spent(file, sent, byId) /\ (breaks = 0 => CleanBut(file, heard, 0))
  BY <1>1, <1>5 DEF Before, Alright
<1>7. CASE th'[t] = Idle /\ \A u \in Threads \ {t} : th'[u] = th[u]
  BY <1>1, <1>2, <1>5, <1>7, SerialEnd
<1>8. ASSUME NEW s \in Pending(file), Went(t, s, r.copy, S1, r.delivered) PROVE SerialInv'
  <2>1. file.jobs[s] \in {"queued", "ready"} BY <1>8 DEF Pending
  <2>2. S1 # <<>> /\ S1 \notin Runs /\ Ahead(S1) = "start" BY Activation, OtherWork DEF Runs
  <2>3. Becomes(new, r, s, r.copy, S1, r.delivered) /\ \A u \in Threads \ {t} : th'[u] = th[u]
    BY <1>8, <2>2 DEF Went
  <2> HIDE DEF new, r
  <2>4. new.op = "pending" /\ new.sub = s /\ new.todo = S1 BY <1>4, <2>3 DEF Becomes
  <2>5. new.todo # <<>> /\ Head(new.todo) = "start" BY <2>2, <2>4 DEF Ahead
  <2>6. ~Holding(new) /\ Prepared(new, file) BY <2>5 DEF Holding, Prepared
  <2>7. Alright(new, file, sent, heard, byId, acked, breaks) BY <1>6, <2>1, <2>2, <2>4, <2>5, <2>6 DEF Alright
  <2>8. Alright(new, file', sent', heard', byId', acked', breaks') /\ Keeps(file', acked') /\ Spent(file', sent', byId')
    BY <1>2, <1>6, <2>7
  <2> QED BY <2>3, <2>5, <2>8, StaysSerial DEF new
<1> QED BY <1>7, <1>8, PickStep

LEMMA SerialRequest ==
  ASSUME SubInv, NEW t \in Threads, Before(t), \A u \in Threads \ {t} : ~Busy(u),
         Request(t), alone' \in BOOLEAN, UNCHANGED breaks
  PROVE  SerialInv'
<1> DEFINE new == th'[t]
<1>1. /\ ~Busy(t) /\ byId \subseteq byId' /\ UNCHANGED <<file, sent, heard, acked>>
      /\ \A u \in Threads \ {t} : th'[u] = th[u]
      /\ new.op \in Ops /\ new.todo = Steps(new.op)
      /\ new.op = "run" => new.sub \in byId'
  BY RequestStep
<1>2. Keeps(file, acked) /\ Spent(file, sent, byId) /\ (breaks = 0 => CleanBut(file, heard, 0))
  BY <1>1 DEF Before
<1>3. Spent(file, sent, byId') BY <1>1, <1>2 DEF Spent
<1> HIDE DEF new
<1>4. /\ new.todo # <<>> /\ new.todo \notin Runs \cup Unlaunched /\ Ahead(new.todo) \notin {"save", "run"}
      /\ new.op = "pending" => Ahead(new.todo) # "start"
  BY <1>1, Beginnings
<1>5. ~Holding(new) /\ Prepared(new, file) BY <1>4 DEF Holding, Prepared, Ahead
<1>6. Alright(new, file, sent, heard, byId', acked, breaks) BY <1>1, <1>2, <1>4, <1>5 DEF Alright, Ahead
<1>7. Alright(new, file', sent', heard', byId', acked', breaks') /\ Keeps(file', acked') /\ Spent(file', sent', byId')
  BY <1>1, <1>2, <1>3, <1>6
<1> QED BY <1>1, <1>4, <1>7, StaysSerial DEF new

LEMMA SerialBreak ==
  ASSUME SubInv, SerialInv, NEW t \in Threads, Break(t)
  PROVE  SerialInv'
<1>1. /\ Busy(t) /\ breaks' > 0 /\ UNCHANGED <<file, sent, heard, byId, acked, alone>>
  BY DEF Break, SubInv
<1>2. th'[t] = Idle /\ \A u \in Threads \ {t} : th'[u] = th[u] BY BreakStep
<1>3. SUFFICES ASSUME alone PROVE SerialInv' BY <1>1 DEF SerialInv
<1>4. \A u \in Threads \ {t} : ~Busy(u) BY <1>1, <1>3 DEF SerialInv
<1>5. Keeps(file', acked') /\ Spent(file', sent', byId') BY <1>1, <1>3 DEF SerialInv
<1> HIDE DEF Idle
<1>6. th'[t].todo = <<>> /\ breaks' # 0 BY <1>1, <1>2, IdleTodo
<1> QED BY <1>2, <1>4, <1>5, <1>6, StaysSerial

\* A step of nobody's: payments and dates are not looked at.
LEMMA SerialWorld ==
  ASSUME SerialInv, UNCHANGED <<file, th, sent, heard, byId, acked, alone, breaks>>
  PROVE  SerialInv'
<1>1. \A t \in Threads : Busy(t)' <=> Busy(t) BY DEF Busy
<1> DEFINE B == \A t \in Threads : ~Busy(t)
           D == \A t, u \in Threads : Busy(t) /\ Busy(u) => t = u
<1>2. (B <=> B') /\ (D <=> D') BY <1>1
<1>3. (\A t \in Threads : Busy(t) => Alright(th[t], file, sent, heard, byId, acked, breaks))
      <=> (\A t \in Threads : Busy(t) => Alright(th[t], file, sent, heard, byId, acked, breaks))'
  BY <1>1
<1> QED BY <1>2, <1>3 DEF SerialInv

LEMMA SerialStep == SubInv /\ SerialInv /\ [Next]_vars => SerialInv'
<1> SUFFICES ASSUME SubInv, SerialInv, [Next]_vars PROVE SerialInv' OBVIOUS
<1>1. ASSUME NEW t \in Threads, Step(t) PROVE SerialInv'
  <2>1. alone' = (alone /\ \A u \in Threads \ {t} : ~Busy(u)) /\ UNCHANGED breaks BY <1>1 DEF Step
  <2>2. SUFFICES ASSUME alone' PROVE SerialInv' BY DEF SerialInv
  <2>3. alone /\ alone' \in BOOLEAN /\ \A u \in Threads \ {t} : ~Busy(u) BY <2>1, <2>2
  <2>4. Before(t) BY <2>3, ServedAlone
  <2>5. CASE LoadAndEdit(t) BY <2>1, <2>3, <2>4, <2>5, SerialLoad
  <2>6. CASE Save(t) BY <2>1, <2>3, <2>4, <2>6, SerialSave
  <2>7. CASE StartRun(t) BY <2>1, <2>3, <2>4, <2>7, SerialStart
  <2>8. CASE Run(t) BY <2>1, <2>3, <2>4, <2>8, SerialRun
  <2>9. CASE PickPending(t) BY <2>1, <2>3, <2>4, <2>9, SerialPick
  <2>10. CASE GetQuote(t)
    <3>1. UNCHANGED <<file, sent, heard, byId, acked, breaks>> BY <2>1, <2>10 DEF GetQuote
    <3> QED BY <2>1, <2>3, <2>4, <2>10, <3>1, QuoteStep, SerialOther
  <2>11. CASE Review(t)
    <3>1. UNCHANGED <<file, sent, heard, byId, acked, breaks>> BY <2>1, <2>11 DEF Review
    <3> QED BY <2>1, <2>3, <2>4, <2>11, <3>1, ReviewStep, SerialOther
  <2>12. CASE Mark(t)
    <3>1. UNCHANGED <<file, sent, heard, byId, acked, breaks>> BY <2>1, <2>12 DEF Mark
    <3> QED BY <2>1, <2>3, <2>4, <2>12, <3>1, MarkStep, SerialOther
  <2>13. CASE Request(t) BY <2>1, <2>3, <2>4, <2>13, SerialRequest
  <2> QED BY <1>1, <2>5, <2>6, <2>7, <2>8, <2>9, <2>10, <2>11, <2>12, <2>13 DEF Step
<1>2. ASSUME NEW t \in Threads, Break(t) PROVE SerialInv' BY <1>2, SerialBreak
<1>3. CASE UNCHANGED vars BY <1>3, SerialWorld DEF vars
<1>4. CASE (\E ref \in Refs : CustomerPays(ref)) \/ \E s \in Subs : Expire(s)
  BY <1>4, SerialWorld DEF CustomerPays, Expire
<1> QED BY <1>1, <1>2, <1>3, <1>4 DEF Next

LEMMA SerialFirst == Init => SerialInv
<1> SUFFICES ASSUME Init PROVE SerialInv OBVIOUS
<1>1. /\ file = EmptyFile /\ th = [t \in Threads |-> Idle] /\ sent = [s \in Subs |-> 0] /\ acked = {}
      /\ heard = [s \in Subs |-> 0]
  BY DEF Init
<1> HIDE DEF Idle
<1>2. \A t \in Threads : ~Busy(t) BY <1>1, IdleTodo DEF Busy
<1>3. \A s \in Subs : Rows(EmptyFile, s) = 0 /\ EmptyFile.jobs[s] = None BY NoRows DEF EmptyFile
<1>4. \A s \in Subs : sent[s] = 0 /\ heard[s] = 0 BY <1>1
<1>5. Keeps(file, acked) BY <1>1 DEF Keeps
<1>6. Spent(file, sent, byId) BY <1>4 DEF Spent
<1>7. CleanBut(file, heard, 0) BY <1>1, <1>3, <1>4 DEF CleanBut, None
<1> QED BY <1>2, <1>5, <1>6, <1>7 DEF SerialInv

\* For every institution: as long as no two requests have been served at once, a job that
\* nobody ran by its id has sent at most one brief, however many requests broke off
\* half-way (AtMostOnce).  A run saves its job as executing before it may send, and the
\* runner of pending jobs takes up none that is.
THEOREM BriefsGoOnce == Spec => []AtMostOnce
<1>1. SubInv /\ SerialInv => AtMostOnce BY DEF SerialInv, Spent, AtMostOnce
<1> QED BY <1>1, SubStart, SubStep, SerialFirst, SerialStep, PTL DEF Spec

\* For every institution: the log has no more runs for a subscription than briefs were sent,
\* and the jobs and the previews claim no brief that was not, however requests overlap or
\* break off; served one at a time and none broken off, a log that has not been cut misses
\* none that a channel said it took (LoggedTruly).
THEOREM TheLogTellsTheTruth == Spec => []LoggedTruly
<1>1. SubInv /\ SerialInv => LoggedTruly
  <2> SUFFICES ASSUME SubInv, SerialInv PROVE LoggedTruly OBVIOUS
  <2>1. FileOK(file, born, sent, payments) /\ PreviewsOK(previews, born, sent) BY DEF SubInv
  <2>2. ASSUME alone, breaks = 0, \A t \in Threads : ~Busy(t), NEW s \in Subs
        PROVE  (Len(file.log) < LogKept => Rows(file, s) = heard[s]) /\ file.jobs[s] # "executing"
    <3>1. CleanBut(file, heard, 0) BY <2>2 DEF SerialInv
    <3>2. s # 0 BY SubscriptionsAssumption DEF Subs
    <3> QED BY <3>1, <3>2 DEF CleanBut
  <2>3. \A s \in Subs : Rows(file, s) <= sent[s] /\ (file.jobs[s] = "executed" => sent[s] > 0)
    BY <2>1 DEF FileOK
  <2>4. \A p \in Pilots : previews[p].fulfilled => \E s \in 1 .. Len(born) : born[s].quote = p /\ sent[s] > 0
    BY <2>1 DEF PreviewsOK
  <2> QED BY <2>2, <2>3, <2>4 DEF LoggedTruly
<1> QED BY <1>1, SubStart, SubStep, SerialFirst, SerialStep, PTL DEF Spec

\* For every institution: as long as no two requests have been served at once, what a save
\* has promised stays in the file, over broken requests too (SavedStays).
THEOREM WhatIsSavedStays == Spec => []SavedStays
<1>1. SubInv /\ SerialInv => SavedStays BY DEF SerialInv, Keeps, SavedStays
<1> QED BY <1>1, SubStart, SubStep, SerialFirst, SerialStep, PTL DEF Spec
=============================================================================
