---------------------------- MODULE CommitmentsProofs ----------------------------
(***************************************************************************)
(* Theorems about Commitments for any number of threads, commitments,      *)
(* cases and warrants.  While no two requests have been served at once,    *)
(* the copy a handler edits is the store itself, so what it checked still  *)
(* holds when it settles, posts or finalizes.                              *)
(***************************************************************************)
EXTENDS Commitments, SequenceTheorems, TLAPS

\* Which step of a handler comes right after which.
Order == {<<"validate", "check">>, <<"check", "ref">>, <<"check", "settle">>, <<"check", "ensure">>,
          <<"ref", "settle">>, <<"settle", "finalize">>, <<"warrant", "accepted">>,
          <<"accepted", "clear">>, <<"warrant", "clear">>, <<"clear", "post">>,
          <<"post", "delivery">>, <<"post", "spend">>, <<"review", "ensure">>,
          <<"ensure", "hold">>, <<"open", "hold">>, <<"caseReview", "hold">>, <<"find", "mirror">>,
          <<"mirror", "hold">>}
StepNames == WriteSteps \cup {"ensure", "find", "validate", "check", "warrant", "accepted", "clear", "post"}
End(q) == q[Len(q)]
\* A settlement is finalized only if its proof is recorded on the way.
Fits(q, i) ==
    /\ <<q[i], q[i + 1]>> \in Order
    /\ q[i] = "check" /\ q[i + 1] = "settle" => End(q) = "settle"
Script == {q \in Seq(StepNames) : \A i \in 1 .. Len(q) - 1 : Fits(q, i)}

Orders == {None, "accept", "reject", "breach", "open", "stay", "resolve", "approved", "stayed", "revoked"}
Commitment == [state : {None, "proposed", "accepted", "rejected", "breached", "settled"},
               ref : BOOLEAN, dw : Warrants \cup {None}, own : Warrants \cup {None}]
Case == [status : {None, "open", "stayed", "resolved"}, kind : Kinds \cup {None},
         c : Ids \cup {None}, w : Warrants \cup {None}, origin : Foreign \cup {None, Reported}]
Warrant == [review : Orders, exec : {"ready", "executed"}]
Copies == {NoCopy} \cup [Ids -> Commitment] \cup [CaseIds -> Case] \cup [Warrants -> Warrant]
Thread == [todo : Script, by : {None, "user", "peer"}, c : Ids \cup {None}, k : Nat,
           kind : Kinds \cup {None}, w : Warrants \cup {None}, d : Orders,
           origin : Foreign \cup {None, Reported}, copy : Copies]

\* What a request has made sure of when it comes to a step.
Clear(cs, c) == c # None => \A k \in CaseIds : cs[k].status \in BLOCKING_CASE_STATES => cs[k].c # c
NoPeer(cs) == \A k \in CaseIds : cs[k].status \in BLOCKING_CASE_STATES =>
                                     cs[k].kind \notin PEER_SUSPENSION_CLAIM_TYPES
SureAt(s, e, r, cm, cs, ob) ==
    /\ e \in {"settle", "finalize"} => r.c \in Ids
    /\ e = "settle" => r.by = "user"
    /\ e = "finalize" /\ s \in {"check", "ref", "settle"} => Settleable(cm[r.c].state)
    /\ e = "finalize" /\ s = "settle" => cm[r.c].ref
    /\ s = "finalize" => cm[r.c].state = "settled" /\ cm[r.c].ref /\ r.w = cm[r.c].dw
    /\ s \in {"ref", "settle"} => Clear(cs, r.c)
    /\ s = "post" => Clear(cs, r.c) /\ NoPeer(cs)
    /\ s = "review" => r.d \in {"accept", "reject", "breach"}
    /\ s \in {"caseReview", "find", "mirror"} => r.d \in {"open", "stay", "resolve"}
    /\ s = "caseReview" => r.k \in CaseIds
    /\ e = "spend" => r.c = None
    /\ s = "spend" => [c |-> None, w |-> r.w] \in ob
Sure(r) == r.todo # <<>> => SureAt(Head(r.todo), End(r.todo), r, cms, cases, outbox)
Fresh(r) == r.copy # NoCopy => r.todo # <<>> /\ r.copy = StoreOf(Head(r.todo))

Stores ==
    /\ cms \in [Ids -> Commitment] /\ cases \in [CaseIds -> Case] /\ warrant \in [Warrants -> Warrant]
    /\ opened \in 0 .. MaxCases
Serial ==
    /\ Stores /\ th \in [Threads -> Thread]
    /\ \A t, u \in Threads : Busy(t) /\ Busy(u) => t = u
    /\ \A t \in Threads : Sure(th[t]) /\ Fresh(th[t])
SerialInv == alone \in BOOLEAN /\ (alone => Serial)

(***************************************************************************)
(* Scripts.                                                                *)
(***************************************************************************)
\* What is left of a script is a script with the same end.
LEMMA TailScript ==
    ASSUME NEW q \in Script, q # <<>>
    PROVE  /\ Head(q) \in StepNames /\ Tail(q) \in Script
           /\ Tail(q) = <<>> => End(q) = Head(q)
           /\ Tail(q) # <<>> =>
                 /\ End(Tail(q)) = End(q) /\ <<Head(q), Head(Tail(q))>> \in Order
                 /\ Head(q) = "check" /\ Head(Tail(q)) = "settle" => End(q) = "settle"
<1> DEFINE p == Tail(q)
<1>1. /\ q \in Seq(StepNames) /\ p \in Seq(StepNames) /\ Len(q) \in Nat /\ Len(q) >= 1
      /\ Len(p) = Len(q) - 1 /\ Head(q) = q[1] /\ Head(q) \in StepNames
      /\ \A i \in 1 .. Len(q) - 1 : p[i] = q[i + 1]
      /\ \A i \in 1 .. Len(q) - 1 : Fits(q, i)
  <2>1. q \in Seq(StepNames) /\ \A i \in 1 .. Len(q) - 1 : Fits(q, i)
    BY DEF Script
  <2> QED BY <2>1
<1> HIDE DEF p
<1>2. p = <<>> <=> Len(q) = 1
  <2>1. p = <<>> <=> Len(p) = 0
    BY <1>1, EmptySeq
  <2> QED BY <1>1, <2>1
<1>3. p # <<>> => Head(p) = p[1] /\ Len(q) >= 2
  BY <1>1, <1>2
<1>4. p = <<>> => End(q) = Head(q)
  BY <1>1, <1>2 DEF End
<1>5. ASSUME p # <<>>
      PROVE  End(p) = End(q) /\ p[1] = q[2] /\ Fits(q, 1)
  <2>1. Len(q) - 1 \in 1 .. Len(q) - 1 /\ 1 \in 1 .. Len(q) - 1
    BY <1>1, <1>3, <1>5
  <2>2. p[Len(q) - 1] = q[Len(q) - 1 + 1] /\ p[1] = q[1 + 1] /\ Fits(q, 1)
    BY <1>1, <2>1
  <2> QED BY <1>1, <1>3, <1>5, <2>2 DEF End
<1>6. p \in Script
  <2> SUFFICES ASSUME NEW i \in 1 .. Len(p) - 1 PROVE Fits(p, i)
    BY <1>1 DEF Script
  <2>1. i \in 1 .. Len(q) - 1 /\ i + 1 \in 1 .. Len(q) - 1 /\ p # <<>>
    BY <1>1, <1>2
  <2>2. Fits(q, i + 1) /\ p[i] = q[i + 1] /\ p[i + 1] = q[i + 1 + 1] /\ End(p) = End(q)
    BY <1>1, <1>5, <2>1
  <2> QED BY <2>2 DEF Fits
<1>7. p # <<>> =>
         /\ End(p) = End(q) /\ <<Head(q), Head(p)>> \in Order
         /\ Head(q) = "check" /\ Head(p) = "settle" => End(q) = "settle"
  BY <1>1, <1>3, <1>5 DEF Fits
<1> QED BY <1>1, <1>4, <1>6, <1>7 DEF p

\* Which step comes next, by the one that is done.
LEMMA NextStep ==
    ASSUME NEW q \in Script, q # <<>>
    PROVE  /\ Head(q) \in {"propose", "delivery", "hold", "finalize", "warrantReview", "spend"} => Tail(q) = <<>>
           /\ Tail(q) # <<>> =>
                LET s == Head(q) n == Head(Tail(q)) IN
                /\ s \in {"review"} => n = "ensure"
                /\ s \in {"ensure", "open", "caseReview", "mirror"} => n = "hold"
                /\ s = "find" => n = "mirror"
                /\ s = "validate" => n = "check"
                /\ s = "check" => n \in {"ref", "settle", "ensure"}
                /\ s = "check" /\ n = "settle" => End(q) = "settle"
                /\ s = "ref" => n = "settle"
                /\ s = "settle" => n = "finalize"
                /\ s = "warrant" => n \in {"accepted", "clear"}
                /\ s = "accepted" => n = "clear"
                /\ s = "clear" => n = "post"
                /\ s = "post" => n \in {"delivery", "spend"}
<1>1. Tail(q) # <<>> =>
         /\ <<Head(q), Head(Tail(q))>> \in Order
         /\ Head(q) = "check" /\ Head(Tail(q)) = "settle" => End(q) = "settle"
  BY TailScript
<1> QED BY <1>1 DEF Order

\* Which steps come at the end.
LEMMA LastStep ==
    ASSUME NEW q \in Script, q # <<>>
    PROVE  /\ Head(q) = "settle" => End(q) \in {"settle", "finalize"}
           /\ Head(q) = "finalize" => End(q) = "finalize"
           /\ Head(q) = "spend" => End(q) = "spend"
           /\ Head(q) = "hold" => End(q) = "hold" /\ q = <<"hold">>
<1>1. Head(q) \in {"finalize", "hold", "spend"} => Tail(q) = <<>> /\ End(q) = Head(q)
  BY NextStep, TailScript
<1>2. ASSUME Head(q) = "settle" PROVE End(q) \in {"settle", "finalize"}
  <2>1. CASE Tail(q) = <<>>
    BY <1>2, <2>1, TailScript
  <2>2. CASE Tail(q) # <<>>
    <3> DEFINE p == Tail(q)
    <3>1. p \in Script /\ p # <<>> /\ End(p) = End(q) /\ Head(p) = "finalize"
      BY <1>2, <2>2, TailScript, NextStep
    <3> HIDE DEF p
    <3>2. End(p) = "finalize"
      BY <3>1, NextStep, TailScript
    <3> QED BY <3>1, <3>2
  <2> QED BY <2>1, <2>2
<1>3. ASSUME Head(q) = "hold" PROVE q = <<"hold">>
  <2> DEFINE p == Tail(q)
  <2>1. /\ q \in Seq(StepNames) /\ Len(q) \in Nat /\ Len(p) = Len(q) - 1 /\ q[1] = "hold"
        /\ p = <<>>
    BY <1>1, <1>3 DEF Script
  <2> HIDE DEF p
  <2>2. Len(p) = 0
    BY <2>1
  <2>3. Len(q) = 1
    BY <2>1, <2>2
  <2>4. q = [i \in 1 .. 1 |-> q[i]]
    BY <2>1, <2>3
  <2>5. <<"hold">> = [i \in 1 .. 1 |-> "hold"]
    OBVIOUS
  <2> QED BY <2>1, <2>4, <2>5
<1> QED BY <1>1, <1>2, <1>3

\* The scripts a handler takes up instead of its own.
LEMMA Instead ==
    /\ <<>> \in Script
    /\ <<"hold">> \in Script /\ <<"hold">> # <<>> /\ Head(<<"hold">>) = "hold" /\ End(<<"hold">>) = "hold"
    /\ \A q \in {<<"ensure", "hold">>, <<"open", "hold">>} :
          q \in Script /\ q # <<>> /\ Head(q) \in {"ensure", "open"} /\ End(q) = "hold"
    /\ <<"open">> \in Script /\ <<"open">> # <<>> /\ Head(<<"open">>) = "open" /\ End(<<"open">>) = "open"
BY DEF Script, Fits, End, Order, StepNames, WriteSteps, WarrantSteps

LEMMA OpenBefore ==
    ASSUME NEW p \in Script, p = <<>> \/ p = <<"hold">>
    PROVE  LET n == <<"open">> \o p
           IN  n \in Script /\ n # <<>> /\ Head(n) = "open" /\ End(n) \in {"open", "hold"}
<1> DEFINE o == <<"open">>  n == o \o p
<1>1. o \in Seq(StepNames) /\ Len(o) = 1 /\ o[1] = "open" /\ p \in Seq(StepNames)
  BY Instead DEF Script
<1>2. Len(p) = 0 \/ (Len(p) = 1 /\ p[1] = "hold")
  OBVIOUS
<1> HIDE DEF o
<1>3. /\ n \in Seq(StepNames) /\ Len(n) = 1 + Len(p)
      /\ \A i \in 1 .. 1 + Len(p) : n[i] = IF i <= 1 THEN o[i] ELSE p[i - 1]
  BY <1>1, ConcatProperties
<1> HIDE DEF n
<1>4. n[1] = "open" /\ (Len(p) = 1 => n[2] = "hold") /\ Len(n) \in 1 .. 2
  <2>1. 1 \in 1 .. 1 + Len(p) /\ (Len(p) = 1 => 2 \in 1 .. 1 + Len(p))
    BY <1>2
  <2>2. n[1] = o[1] /\ (Len(p) = 1 => n[2] = p[1])
    BY <1>3, <2>1
  <2> QED BY <1>1, <1>2, <1>3, <2>2
<1>5. n # <<>> /\ Head(n) = "open"
  BY <1>3, <1>4
<1>6. End(n) \in {"open", "hold"}
  BY <1>2, <1>3, <1>4 DEF End
<1>7. ASSUME NEW i \in 1 .. Len(n) - 1 PROVE <<n[i], n[i + 1]>> = <<"open", "hold">>
  <2>1. i = 1 /\ Len(p) = 1
    BY <1>2, <1>3
  <2> QED BY <1>4, <2>1
<1>8. n \in Script
  BY <1>3, <1>7 DEF Script, Fits, Order
<1> QED BY <1>5, <1>6, <1>8 DEF n, o

(***************************************************************************)
(* Threads.                                                                *)
(***************************************************************************)
\* n is what a thread goes on with after a step that left it with r and rest.
Goes(n, r, rest) ==
    /\ n \in Thread /\ n.copy = NoCopy /\ n.todo = rest
    /\ rest # <<>> => n.by = r.by /\ n.c = r.c /\ n.k = r.k /\ n.w = r.w /\ n.d = r.d

LEMMA Nobody == Idle \in Thread /\ Idle.todo = <<>> /\ Idle.copy = NoCopy
BY Instead DEF Idle, Thread, Orders, Copies

LEMMA GoesOn ==
    ASSUME NEW t \in Threads, NEW r \in Thread, NEW rest \in Script,
           th \in [Threads -> Thread], Continue(t, r, rest)
    PROVE  th' = [th EXCEPT ![t] = th'[t]] /\ Goes(th'[t], r, rest)
<1> DEFINE n == [r EXCEPT !.todo = rest, !.copy = NoCopy]
<1>1. n \in Thread /\ n.todo = rest /\ n.copy = NoCopy
      /\ n.by = r.by /\ n.c = r.c /\ n.k = r.k /\ n.w = r.w /\ n.d = r.d
  BY DEF Thread, Copies
<1>2. th' = [th EXCEPT ![t] = IF rest = <<>> THEN Idle ELSE n]
  BY DEF Continue
<1> HIDE DEF n
<1>3. th'[t] = IF rest = <<>> THEN Idle ELSE n
  BY <1>2
<1> QED BY <1>1, <1>2, <1>3, Nobody DEF Goes

\* A step of the thread that is served keeps the invariant if what the thread comes to
\* is still sure of what it needs.
LEMMA Onward ==
    ASSUME Serial, Watch, alone', NEW t \in Threads, Busy(t), NEW r \in Thread, NEW rest \in Script,
           Continue(t, r, rest), Stores',
           rest # <<>> => SureAt(Head(rest), End(rest), r, cms', cases', outbox')
    PROVE  Serial'
<1>1. th' = [th EXCEPT ![t] = th'[t]] /\ Goes(th'[t], r, rest)
  BY GoesOn DEF Serial
<1>2. \A u, v \in Threads : Busy(u)' /\ Busy(v)' => u = v
  BY DEF Watch
<1>3. th' \in [Threads -> Thread] /\ \A u \in Threads \ {t} : th'[u] = th[u]
  BY <1>1 DEF Serial, Goes
<1>4. ASSUME NEW u \in Threads \ {t} PROVE Sure(th[u])' /\ Fresh(th[u])'
  <2>1. ~Busy(u)
    BY DEF Serial
  <2>2. th'[u].todo = <<>> /\ th'[u].copy = NoCopy
    BY <1>3, <2>1 DEF Serial, Busy, Fresh
  <2> QED BY <2>2 DEF Sure, Fresh
<1>5. Sure(th[t])' /\ Fresh(th[t])'
  BY <1>1 DEF Goes, Sure, SureAt, Fresh
<1> QED BY <1>2, <1>3, <1>4, <1>5 DEF Serial

(***************************************************************************)
(* Steps of the handler that is served.                                    *)
(***************************************************************************)
Served(t) == Serial /\ Watch /\ alone' /\ Busy(t)

\* What a handler knows when it takes a step.
LEMMA AtStep ==
    ASSUME NEW t \in Threads, Served(t)
    PROVE  /\ th[t] \in Thread /\ th[t].todo \in Script /\ th[t].todo # <<>>
           /\ Tail(th[t].todo) \in Script /\ Current(t) = Head(th[t].todo)
           /\ SureAt(Current(t), End(th[t].todo), th[t], cms, cases, outbox)
           /\ th[t].copy # NoCopy => th[t].copy = StoreOf(Current(t))
BY TailScript DEF Served, Serial, Busy, Current, Thread, Sure, Fresh

\* A handler goes on with its script and has learnt nothing it needs.
LEMMA GoesFurther ==
    ASSUME NEW t \in Threads, Served(t), Stores', NEW r \in Thread, r.by = th[t].by, r.c = th[t].c,
           r.d = th[t].d, Step(t, r),
           Tail(th[t].todo) # <<>> =>
               Head(Tail(th[t].todo)) \in {"ensure", "hold", "accepted", "clear", "delivery", "mirror"}
               /\ (Head(Tail(th[t].todo)) = "mirror" => Current(t) = "find")
    PROVE  Serial'
<1> DEFINE q == th[t].todo  p == Tail(q)
<1>1. /\ q \in Script /\ q # <<>> /\ p \in Script /\ SureAt(Head(q), End(q), th[t], cms, cases, outbox)
      /\ Current(t) = Head(q)
  BY AtStep
<1>2. p # <<>> => End(p) = End(q)
  BY <1>1, TailScript
<1>3. p # <<>> => SureAt(Head(p), End(p), r, cms', cases', outbox')
  BY <1>1, <1>2 DEF SureAt
<1>4. Continue(t, r, p)
  BY DEF Step
<1> HIDE DEF p
<1> QED BY <1>1, <1>3, <1>4, Onward DEF Served

LEMMA LoadKeeps ==
    ASSUME NEW t \in Threads, Served(t), Load(t)
    PROVE  Serial'
<1> DEFINE s == StoreOf(Current(t))  n == [th[t] EXCEPT !.copy = s]
<1>1. s \in Copies
  BY DEF Load, StoreOf, WriteSteps, WarrantSteps, Copies, Served, Serial, Stores
<1>2. /\ n \in Thread /\ n.todo = th[t].todo /\ n.copy = s
      /\ n.by = th[t].by /\ n.c = th[t].c /\ n.k = th[t].k /\ n.w = th[t].w /\ n.d = th[t].d
  BY <1>1, AtStep DEF Thread
<1>3. th' = [th EXCEPT ![t] = n] /\ UNCHANGED <<cms, cases, warrant, outbox, opened>>
  BY DEF Load
<1>4. s = StoreOf(Current(t))' /\ Current(t)' = Current(t)
  BY <1>2, <1>3 DEF StoreOf, WarrantSteps, Served, Serial, Current
<1> HIDE DEF n, s
<1>5. th' \in [Threads -> Thread] /\ th'[t] = n /\ \A u \in Threads \ {t} : th'[u] = th[u]
  BY <1>2, <1>3 DEF Served, Serial
<1>6. Stores' /\ \A u, v \in Threads : Busy(u)' /\ Busy(v)' => u = v
  BY <1>2, <1>3, <1>5 DEF Served, Serial, Busy, Stores
<1>7. ASSUME NEW u \in Threads \ {t} PROVE Sure(th[u])' /\ Fresh(th[u])'
  <2>1. th'[u].todo = <<>> /\ th'[u].copy = NoCopy
    BY <1>5 DEF Served, Serial, Busy, Fresh
  <2> QED BY <2>1 DEF Sure, Fresh
<1>8. Sure(th[t])' /\ Fresh(th[t])'
  <2>1. SureAt(Head(n.todo), End(n.todo), n, cms', cases', outbox')
    BY <1>2, <1>3, AtStep DEF SureAt
  <2>2. th'[t].todo # <<>> /\ th'[t].copy = StoreOf(Head(th[t].todo))'
    BY <1>2, <1>4, <1>5, AtStep DEF Current
  <2>3. Fresh(th[t])'
    BY <2>2 DEF Fresh
  <2>4. Sure(th[t])'
    BY <1>5, <2>1 DEF Sure
  <2> QED BY <2>3, <2>4
<1> QED BY <1>5, <1>6, <1>7, <1>8 DEF Serial

\* The decisions of a review are no settlements.
LEMMA StateMapIs ==
    /\ \A d \in {"accept", "reject", "breach"} : StateMap(d) \in {"accepted", "rejected", "breached"}
    /\ \A d \in {"open", "stay", "resolve"} : StateMap(d) \in {"open", "stayed", "resolved"}
BY DEF StateMap

LEMMA EmptyHanded == ASSUME NEW t \in Threads, Served(t), Stores', Stop(t) PROVE Serial'
<1>1. <<>> \in Script /\ Idle \in Thread
  BY Instead, Nobody
<1> QED BY <1>1, Onward DEF Served, Stop

LEMMA ProposeKeeps == ASSUME NEW t \in Threads, Served(t), Propose(t) PROVE Serial'
<1>1. Current(t) = "propose" /\ th[t].copy = cms
  BY AtStep DEF Propose, Writing, At, StoreOf, WarrantSteps
<1>2. Stores'
  <2> DEFINE n == [NoCommitment EXCEPT !.state = "proposed", !.own = th[t].w]
  <2>1. n \in Commitment
    BY AtStep DEF NoCommitment, Commitment, Thread, Propose, Writing, At
  <2>2. cms' = [cms EXCEPT ![th[t].c] = n] /\ UNCHANGED <<cases, warrant, opened>>
    BY <1>1 DEF Propose
  <2> HIDE DEF n
  <2> QED BY <2>1, <2>2 DEF Served, Serial, Stores
<1>3. Tail(th[t].todo) = <<>>
  BY <1>1, AtStep, NextStep
<1> QED BY <1>2, <1>3, AtStep, GoesFurther DEF Propose

LEMMA ReviewKeeps == ASSUME NEW t \in Threads, Served(t), Review(t) PROVE Serial'
<1>1. Current(t) = "review" /\ th[t].copy = cms
  BY AtStep DEF Review, Writing, At, StoreOf, WarrantSteps
<1>2. StateMap(th[t].d) \in {"accepted", "rejected", "breached"}
  BY <1>1, AtStep, StateMapIs DEF SureAt
<1>3. Stores'
  BY <1>1, <1>2 DEF Review, Served, Serial, Stores, Commitment
<1>4. Tail(th[t].todo) # <<>> => Head(Tail(th[t].todo)) = "ensure"
  BY <1>1, AtStep, NextStep
<1>5. CASE Step(t, th[t])
  BY <1>3, <1>4, <1>5, AtStep, GoesFurther
<1>6. CASE Stop(t)
  BY <1>3, <1>6, EmptyHanded
<1> QED BY <1>5, <1>6 DEF Review

LEMMA RefKeeps == ASSUME NEW t \in Threads, Served(t), RecordSettlementRef(t) PROVE Serial'
<1> DEFINE q == th[t].todo  p == Tail(q)
<1>1. Current(t) = "ref" /\ th[t].copy = cms /\ UNCHANGED cases
  BY AtStep DEF RecordSettlementRef, Writing, At, StoreOf, WarrantSteps
<1>2. Stores'
  <2>1. cms' = cms \/ cms' = [cms EXCEPT ![th[t].c].ref = TRUE]
    BY <1>1 DEF RecordSettlementRef
  <2>2. cms' \in [Ids -> Commitment]
    BY <2>1 DEF Served, Serial, Stores, Commitment
  <2> QED BY <2>2 DEF RecordSettlementRef, Served, Serial, Stores
<1>3. CASE Step(t, th[t]) /\ cms' = [cms EXCEPT ![th[t].c].ref = TRUE]
  <2>1. /\ q \in Script /\ q # <<>> /\ p \in Script /\ SureAt(Head(q), End(q), th[t], cms, cases, outbox)
        /\ Head(q) = "ref" /\ th[t] \in Thread
    BY <1>1, AtStep
  <2>2. p # <<>> => End(p) = End(q) /\ Head(p) = "settle"
    BY <2>1, TailScript, NextStep
  <2>3. p # <<>> => End(p) \in {"settle", "finalize"}
    BY <2>1, <2>2, LastStep
  <2>4. p # <<>> => cms'[th[t].c].state = cms[th[t].c].state /\ cms'[th[t].c].ref
    BY <1>3, <2>1, <2>2, <2>3 DEF SureAt, Served, Serial, Stores, Commitment
  <2>5. p # <<>> => SureAt(Head(p), End(p), th[t], cms', cases', outbox')
    BY <1>1, <2>1, <2>2, <2>4 DEF SureAt
  <2>6. Continue(t, th[t], p)
    BY <1>3 DEF Step
  <2> HIDE DEF p
  <2> QED BY <1>2, <2>1, <2>5, <2>6, Onward DEF Served
<1>4. CASE Stop(t)
  BY <1>2, <1>4, EmptyHanded
<1> QED BY <1>1, <1>3, <1>4 DEF RecordSettlementRef

LEMMA SettleKeeps == ASSUME NEW t \in Threads, Served(t), Settle(t) PROVE Serial'
<1> DEFINE q == th[t].todo  p == Tail(q)  c == th[t].c  r == [th[t] EXCEPT !.w = cms[c].dw]
<1>1. Current(t) = "settle" /\ th[t].copy = cms /\ UNCHANGED cases
  BY AtStep DEF Settle, Writing, At, StoreOf, WarrantSteps
<1>2. Stores'
  BY <1>1 DEF Settle, Served, Serial, Stores, Commitment
<1>3. CASE Step(t, r) /\ cms' = [cms EXCEPT ![c].state = "settled"]
  <2>1. /\ q \in Script /\ q # <<>> /\ p \in Script /\ SureAt(Head(q), End(q), th[t], cms, cases, outbox)
        /\ Head(q) = "settle" /\ th[t] \in Thread
    BY <1>1, AtStep
  <2>2. /\ p # <<>> => End(p) = End(q) /\ Head(p) = "finalize"
        /\ End(q) \in {"settle", "finalize"}
    BY <2>1, TailScript, NextStep, LastStep
  <2>3. c \in Ids /\ cms[c] \in Commitment
    BY <2>1, <2>2 DEF SureAt, Served, Serial, Stores
  <2>4. r \in Thread /\ r.w = cms[c].dw /\ r.c = c /\ r.by = th[t].by /\ r.d = th[t].d
    BY <2>1, <2>3 DEF Thread, Commitment
  <2>5. p # <<>> => End(p) = "finalize"
    <3>1. p # <<>> => p \in Script /\ Head(p) = "finalize"
      BY <2>1, <2>2
    <3> HIDE DEF p
    <3> QED BY <3>1, LastStep
  <2>6. cms'[c].state = "settled" /\ cms'[c].ref = cms[c].ref /\ cms'[c].dw = cms[c].dw
    BY <1>3, <2>3 DEF Served, Serial, Stores, Commitment
  <2>7. p # <<>> => SureAt(Head(p), End(p), r, cms', cases', outbox')
    BY <2>1, <2>2, <2>3, <2>4, <2>5, <2>6 DEF SureAt
  <2>8. Continue(t, r, p)
    BY <1>3 DEF Step
  <2> HIDE DEF p, r
  <2> QED BY <1>2, <2>1, <2>4, <2>7, <2>8, Onward DEF Served
<1>4. CASE Stop(t)
  BY <1>2, <1>4, EmptyHanded
<1> QED BY <1>1, <1>3, <1>4 DEF Settle

LEMMA DeliveryRefKeeps == ASSUME NEW t \in Threads, Served(t), RecordDeliveryRef(t) PROVE Serial'
<1>1. Current(t) = "delivery" /\ th[t].copy = cms /\ th[t].w \in Warrants \cup {None}
  BY AtStep DEF RecordDeliveryRef, Writing, At, StoreOf, WarrantSteps, Thread
<1>2. Stores'
  <2>1. cms' = cms \/ cms' = [cms EXCEPT ![th[t].c].dw = th[t].w]
    BY <1>1 DEF RecordDeliveryRef
  <2>2. cms' \in [Ids -> Commitment]
    BY <1>1, <2>1 DEF Served, Serial, Stores, Commitment
  <2> QED BY <2>2 DEF RecordDeliveryRef, Served, Serial, Stores
<1>3. Tail(th[t].todo) = <<>>
  BY <1>1, AtStep, NextStep
<1>4. CASE Step(t, th[t])
  BY <1>2, <1>3, <1>4, AtStep, GoesFurther
<1>5. CASE Stop(t)
  BY <1>2, <1>5, EmptyHanded
<1> QED BY <1>4, <1>5 DEF RecordDeliveryRef

\* A case found becomes the handler's, with the warrant it holds.
LEMMA CaseTaken ==
    ASSUME NEW t \in Threads, Served(t), NEW k \in CaseIds
    PROVE  LET r == [th[t] EXCEPT !.k = k, !.w = cases[k].w]
           IN  r \in Thread /\ r.by = th[t].by /\ r.c = th[t].c /\ r.d = th[t].d
<1>1. th[t] \in Thread /\ cases[k].w \in Warrants \cup {None} /\ k \in Nat
  BY AtStep, CommitmentsAssumption DEF Served, Serial, Stores, Case, CaseIds
<1> QED BY <1>1 DEF Thread

LEMMA EnsureKeeps == ASSUME NEW t \in Threads, Served(t), Ensure(t) PROVE Serial'
<1> DEFINE q == th[t].todo  p == Tail(q)
<1>1. /\ Current(t) = "ensure" /\ q \in Script /\ q # <<>> /\ p \in Script /\ Head(q) = "ensure"
      /\ th[t] \in Thread
  BY AtStep DEF Ensure, At
<1>2. Stores' /\ UNCHANGED <<cms, cases>>
  BY DEF Ensure, Served, Serial, Stores
<1>3. p # <<>> => Head(p) = "hold"
  BY <1>1, NextStep
<1>4. ASSUME NEW k \in Existing(t), Step(t, [th[t] EXCEPT !.k = k, !.w = cases[k].w])
      PROVE  Serial'
  <2> DEFINE r == [th[t] EXCEPT !.k = k, !.w = cases[k].w]
  <2>1. r \in Thread /\ r.by = th[t].by /\ r.c = th[t].c /\ r.d = th[t].d
    BY CaseTaken DEF Existing
  <2>2. Step(t, r)
    BY <1>4
  <2> HIDE DEF r
  <2> QED BY <1>2, <1>3, <2>1, <2>2, GoesFurther
<1>5. ASSUME Continue(t, th[t], <<"open">> \o p) PROVE Serial'
  <2>1. p = <<>> \/ p = <<"hold">>
    <3>1. p \in Script /\ (p # <<>> => Head(p) = "hold")
      BY <1>1, <1>3
    <3> HIDE DEF p
    <3> QED BY <3>1, LastStep
  <2>3. /\ <<"open">> \o p \in Script /\ Head(<<"open">> \o p) = "open"
        /\ End(<<"open">> \o p) \in {"open", "hold"}
    BY <1>1, <2>1, OpenBefore
  <2>4. SureAt(Head(<<"open">> \o p), End(<<"open">> \o p), th[t], cms', cases', outbox')
    BY <2>3 DEF SureAt
  <2> DEFINE n == <<"open">> \o p
  <2>5. n \in Script /\ Continue(t, th[t], n) /\ SureAt(Head(n), End(n), th[t], cms', cases', outbox')
    BY <1>5, <2>3, <2>4
  <2> HIDE DEF n
  <2> QED BY <1>1, <1>2, <2>5, Onward DEF Served
<1> QED BY <1>4, <1>5 DEF Ensure

LEMMA OpenCaseKeeps == ASSUME NEW t \in Threads, Served(t), OpenCase(t) PROVE Serial'
<1>1. Current(t) = "open" /\ th[t].copy = cases /\ th[t] \in Thread
      /\ opened \in 0 .. MaxCases /\ opened < MaxCases /\ MaxCases \in Nat
  BY AtStep, CommitmentsAssumption DEF OpenCase, Writing, At, StoreOf, WarrantSteps, Served, Serial, Stores
<1> DEFINE r == [th[t] EXCEPT !.k = opened + 1]
           new == [status |-> "open", kind |-> th[t].kind, c |-> th[t].c, w |-> th[t].w,
                   origin |-> th[t].origin]
<1>2. r \in Thread /\ r.by = th[t].by /\ r.c = th[t].c /\ r.d = th[t].d /\ new \in Case
  BY <1>1 DEF Thread, Case
<1>3. Step(t, r) /\ cases' = [cases EXCEPT ![opened + 1] = new] /\ opened' = opened + 1
      /\ UNCHANGED <<cms, warrant>>
  BY <1>1 DEF OpenCase
<1> HIDE DEF r, new
<1>4. Stores'
  <2>1. cases \in [CaseIds -> Case] /\ cms \in [Ids -> Commitment] /\ warrant \in [Warrants -> Warrant]
    BY DEF Served, Serial, Stores
  <2>2. cases' \in [CaseIds -> Case]
    BY <1>2, <1>3, <2>1
  <2>3. opened' \in 0 .. MaxCases
    BY <1>1, <1>3
  <2> QED BY <1>3, <2>1, <2>2, <2>3 DEF Stores
<1>5. Tail(th[t].todo) # <<>> => Head(Tail(th[t].todo)) = "hold"
  BY <1>1, AtStep, NextStep
<1> QED BY <1>2, <1>3, <1>4, <1>5, GoesFurther

LEMMA ReviewCaseKeeps == ASSUME NEW t \in Threads, Served(t), ReviewCase(t) PROVE Serial'
<1> DEFINE k == th[t].k  r == [th[t] EXCEPT !.w = cases[k].w]
<1>1. Current(t) = "caseReview" /\ th[t].copy = cases /\ th[t] \in Thread
  BY AtStep DEF ReviewCase, Writing, At, StoreOf, WarrantSteps
<1>2. StateMap(th[t].d) \in {"open", "stayed", "resolved"}
  BY <1>1, AtStep, StateMapIs DEF SureAt
<1>3. Stores'
  <2>1. cases' = cases \/ cases' = [cases EXCEPT ![k].status = StateMap(th[t].d)]
    BY <1>1 DEF ReviewCase
  <2>2. cases' \in [CaseIds -> Case]
    BY <1>2, <2>1 DEF Served, Serial, Stores, Case
  <2> QED BY <2>2 DEF ReviewCase, Served, Serial, Stores
<1>4. Tail(th[t].todo) # <<>> => Head(Tail(th[t].todo)) = "hold"
  BY <1>1, AtStep, NextStep
<1>5. CASE Stop(t)
  BY <1>3, <1>5, EmptyHanded
<1>6. CASE Step(t, r)
  <2>1. k \in CaseIds
    BY <1>1, AtStep DEF SureAt
  <2>2. cases[k].w \in Warrants \cup {None}
    BY <2>1 DEF Served, Serial, Stores, Case
  <2>3. r \in Thread /\ r.by = th[t].by /\ r.c = th[t].c /\ r.d = th[t].d
    BY <1>1, <2>2 DEF Thread
  <2> HIDE DEF r
  <2> QED BY <1>3, <1>4, <1>6, <2>3, GoesFurther
<1> QED BY <1>1, <1>5, <1>6 DEF ReviewCase

\* A handler that only looks at a store, and drops its script or takes up another one.
LEMMA TurnsTo ==
    ASSUME NEW t \in Threads, Served(t), Stores', NEW r \in Thread,
           NEW n \in {<<"hold">>, <<"open", "hold">>, <<"ensure", "hold">>}, Continue(t, r, n)
    PROVE  Serial'
<1>1. n \in Script /\ n # <<>> /\ Head(n) \in {"hold", "open", "ensure"} /\ End(n) = "hold"
  BY Instead
<1> QED BY <1>1, Onward DEF Served, SureAt

LEMMA FindMirrorKeeps == ASSUME NEW t \in Threads, Served(t), FindMirror(t) PROVE Serial'
<1>1. Current(t) = "find" /\ th[t] \in Thread
  BY AtStep DEF FindMirror, At
<1>2. Stores'
  BY DEF FindMirror, Served, Serial, Stores
<1>3. Tail(th[t].todo) # <<>> => Head(Tail(th[t].todo)) = "mirror"
  BY <1>1, AtStep, NextStep
<1>4. ASSUME NEW k \in CaseIds, Step(t, [th[t] EXCEPT !.k = k]) PROVE Serial'
  <2> DEFINE r == [th[t] EXCEPT !.k = k]
  <2>1. r \in Thread /\ r.by = th[t].by /\ r.c = th[t].c /\ r.d = th[t].d
    <3>1. k \in Nat
      BY CommitmentsAssumption DEF CaseIds
    <3> QED BY <1>1, <3>1 DEF Thread
  <2>2. Step(t, r)
    BY <1>4
  <2> HIDE DEF r
  <2> QED BY <1>1, <1>2, <1>3, <2>1, <2>2, GoesFurther
<1>5. CASE Continue(t, th[t], <<"open", "hold">>)
  BY <1>1, <1>2, <1>5, TurnsTo
<1>6. CASE Stop(t)
  BY <1>2, <1>6, EmptyHanded
<1> QED BY <1>4, <1>5, <1>6 DEF FindMirror

LEMMA MirrorKeeps == ASSUME NEW t \in Threads, Served(t), Mirror(t) PROVE Serial'
<1> DEFINE new == [status |-> StateMap(th[t].d), kind |-> th[t].kind, c |-> th[t].c, w |-> th[t].w,
                   origin |-> th[t].origin]
<1>1. Current(t) = "mirror" /\ th[t].copy = cases /\ th[t] \in Thread
  BY AtStep DEF Mirror, Writing, At, StoreOf, WarrantSteps
<1>2. StateMap(th[t].d) \in {"open", "stayed", "resolved"}
  BY <1>1, AtStep, StateMapIs DEF SureAt
<1>3. new \in Case
  BY <1>1, <1>2 DEF Thread, Case
<1>4. cases' = [cases EXCEPT ![th[t].k] = new] /\ UNCHANGED <<cms, warrant, opened>> /\ Step(t, th[t])
  BY <1>1 DEF Mirror
<1> HIDE DEF new
<1>5. Stores'
  BY <1>3, <1>4 DEF Served, Serial, Stores
<1>6. Tail(th[t].todo) # <<>> => Head(Tail(th[t].todo)) = "hold"
  BY <1>1, AtStep, NextStep
<1> QED BY <1>1, <1>4, <1>5, <1>6, GoesFurther

\* A write of warrants.json comes last, and leaves whether a warrant is executed alone
\* unless it finalizes one.
LEMMA WarrantWritten ==
    ASSUME NEW t \in Threads, Served(t), Current(t) \in {"hold", "warrantReview", "finalize", "spend"},
           Step(t, th[t]), UNCHANGED <<cms, cases, opened>>, warrant' \in [Warrants -> Warrant]
    PROVE  Serial'
<1>1. Stores'
  BY DEF Served, Serial, Stores
<1>2. Tail(th[t].todo) = <<>> /\ th[t] \in Thread
  BY AtStep, NextStep
<1> QED BY <1>1, <1>2, GoesFurther

LEMMA HoldKeeps ==
    ASSUME NEW t \in Threads, Served(t), Hold(t)
    PROVE  Serial' /\ \A w \in Warrants : warrant'[w].exec = warrant[w].exec
<1>1. Current(t) = "hold" /\ th[t].copy = warrant
  BY AtStep DEF Hold, Writing, At, StoreOf, WarrantSteps
<1>2. warrant' = warrant \/ warrant' = [warrant EXCEPT ![th[t].w].review = "stayed"]
  BY <1>1 DEF Hold
<1>3. warrant \in [Warrants -> Warrant]
  BY DEF Served, Serial, Stores
<1>4. warrant' \in [Warrants -> Warrant] /\ \A w \in Warrants : warrant'[w].exec = warrant[w].exec
  BY <1>2, <1>3 DEF Warrant, Orders
<1> QED BY <1>1, <1>4, WarrantWritten DEF Hold

LEMMA ReviewWarrantKeeps ==
    ASSUME NEW t \in Threads, Served(t), ReviewWarrant(t)
    PROVE  Serial' /\ \A w \in Warrants : warrant'[w].exec = warrant[w].exec
<1>1. Current(t) = "warrantReview" /\ th[t].copy = warrant /\ th[t].d \in Orders
  BY AtStep DEF ReviewWarrant, Writing, At, StoreOf, WarrantSteps, Thread
<1>2. warrant' = [warrant EXCEPT ![th[t].w].review = th[t].d]
  BY <1>1 DEF ReviewWarrant
<1>3. warrant \in [Warrants -> Warrant]
  BY DEF Served, Serial, Stores
<1>4. warrant' \in [Warrants -> Warrant] /\ \A w \in Warrants : warrant'[w].exec = warrant[w].exec
  BY <1>1, <1>2, <1>3 DEF Warrant
<1> QED BY <1>1, <1>4, WarrantWritten DEF ReviewWarrant

LEMMA FinalizeKeeps ==
    ASSUME NEW t \in Threads, Served(t), Finalize(t)
    PROVE  /\ Serial'
           /\ \A w \in Warrants : warrant'[w].exec = warrant[w].exec \/
                /\ warrant[w].exec = "ready"
                /\ \E c \in Ids : cms[c].state = "settled" /\ cms[c].ref /\ cms[c].dw = w
<1>1. Current(t) = "finalize" /\ th[t].copy = warrant
  BY AtStep DEF Finalize, Writing, At, StoreOf, WarrantSteps
<1>2. \/ warrant' = warrant
      \/ warrant[th[t].w].exec = "ready" /\ warrant' = [warrant EXCEPT ![th[t].w].exec = "executed"]
  BY <1>1 DEF Finalize
<1>3. warrant \in [Warrants -> Warrant]
  BY DEF Served, Serial, Stores
<1>4. /\ warrant' \in [Warrants -> Warrant]
      /\ \A w \in Warrants : warrant'[w].exec = warrant[w].exec
                              \/ (w = th[t].w /\ warrant[w].exec = "ready")
  BY <1>2, <1>3 DEF Warrant
<1>5. /\ th[t].c \in Ids /\ cms[th[t].c].state = "settled" /\ cms[th[t].c].ref
      /\ cms[th[t].c].dw = th[t].w
  BY <1>1, AtStep, LastStep DEF SureAt
<1>6. Serial'
  BY <1>1, <1>4, WarrantWritten DEF Finalize
<1> QED BY <1>4, <1>5, <1>6

LEMMA SpendKeeps ==
    ASSUME NEW t \in Threads, Served(t), Spend(t)
    PROVE  /\ Serial'
           /\ \A w \in Warrants : warrant'[w].exec = warrant[w].exec \/
                /\ warrant[w].exec = "ready"
                /\ [c |-> None, w |-> w] \in outbox /\ At(t, "spend") /\ th[t].w = w
<1>1. Current(t) = "spend" /\ At(t, "spend") /\ th[t].copy = warrant
  BY AtStep DEF Spend, Writing, At, StoreOf, WarrantSteps
<1>2. \/ warrant' = warrant
      \/ warrant[th[t].w].exec = "ready" /\ warrant' = [warrant EXCEPT ![th[t].w].exec = "executed"]
  BY <1>1 DEF Spend
<1>3. warrant \in [Warrants -> Warrant]
  BY DEF Served, Serial, Stores
<1>4. /\ warrant' \in [Warrants -> Warrant]
      /\ \A w \in Warrants : warrant'[w].exec = warrant[w].exec
                              \/ (w = th[t].w /\ warrant[w].exec = "ready")
  BY <1>2, <1>3 DEF Warrant
<1>5. [c |-> None, w |-> th[t].w] \in outbox
  BY <1>1, AtStep DEF SureAt
<1>6. Serial'
  BY <1>1, <1>4, WarrantWritten DEF Spend
<1> QED BY <1>1, <1>4, <1>5, <1>6

LEMMA ValidateKeeps == ASSUME NEW t \in Threads, Served(t), ValidateSettlement(t) PROVE Serial'
<1> DEFINE q == th[t].todo  p == Tail(q)
<1>1. /\ q \in Script /\ q # <<>> /\ p \in Script /\ SureAt(Head(q), End(q), th[t], cms, cases, outbox)
      /\ Current(t) = "validate" /\ Head(q) = "validate" /\ th[t] \in Thread
  BY AtStep DEF ValidateSettlement, At
<1>2. Stores' /\ UNCHANGED <<cms, cases>>
  BY DEF ValidateSettlement, Served, Serial, Stores
<1>3. p # <<>> => End(p) = End(q) /\ Head(p) = "check"
  BY <1>1, TailScript, NextStep
<1>4. CASE Settleable(cms[th[t].c].state) /\ Names(cms[th[t].c], th[t].w) /\ Step(t, th[t])
  <2>1. p # <<>> => SureAt(Head(p), End(p), th[t], cms', cases', outbox')
    BY <1>1, <1>2, <1>3, <1>4 DEF SureAt
  <2>2. Continue(t, th[t], p)
    BY <1>4 DEF Step
  <2> HIDE DEF p
  <2> QED BY <1>1, <1>2, <2>1, <2>2, Onward DEF Served
<1>5. CASE Stop(t)
  BY <1>2, <1>5, EmptyHanded
<1> QED BY <1>4, <1>5 DEF ValidateSettlement

LEMMA NothingBlocks == ASSUME NEW c PROVE /\ Blocking(c) = {} => Clear(cases, c)
                                          /\ BlockingPeer = {} <=> NoPeer(cases)
BY DEF Blocking, BlockingPeer, Active, Clear, NoPeer

LEMMA CheckCaseKeeps == ASSUME NEW t \in Threads, Served(t), CheckCase(t) PROVE Serial'
<1> DEFINE q == th[t].todo  p == Tail(q)
<1>1. /\ q \in Script /\ q # <<>> /\ p \in Script /\ SureAt(Head(q), End(q), th[t], cms, cases, outbox)
      /\ Current(t) = "check" /\ Head(q) = "check" /\ th[t] \in Thread
  BY AtStep DEF CheckCase, At
<1>2. Stores' /\ UNCHANGED <<cms, cases>>
  BY DEF CheckCase, Served, Serial, Stores
<1>3. p # <<>> => /\ End(p) = End(q) /\ Head(p) \in {"ref", "settle", "ensure"}
                  /\ Head(p) = "settle" => End(q) = "settle"
  BY <1>1, TailScript, NextStep
<1>4. ASSUME NEW k \in Blocking(th[t].c), Continue(t, [th[t] EXCEPT !.k = k, !.w = cases[k].w], <<"hold">>)
      PROVE  Serial'
  <2> DEFINE r == [th[t] EXCEPT !.k = k, !.w = cases[k].w]
  <2>1. r \in Thread
    BY CaseTaken DEF Blocking
  <2>2. Continue(t, r, <<"hold">>)
    BY <1>4
  <2> HIDE DEF r
  <2> QED BY <1>2, <2>1, <2>2, TurnsTo
<1>5. CASE Blocking(th[t].c) = {} /\ Step(t, th[t])
  <2>1. Clear(cases, th[t].c)
    BY <1>5, NothingBlocks
  <2>2. p # <<>> => SureAt(Head(p), End(p), th[t], cms', cases', outbox')
    BY <1>1, <1>2, <1>3, <2>1 DEF SureAt
  <2>3. Continue(t, th[t], p)
    BY <1>5 DEF Step
  <2> HIDE DEF p
  <2> QED BY <1>1, <1>2, <2>2, <2>3, Onward DEF Served
<1> QED BY <1>4, <1>5 DEF CheckCase

\* Of the checks of a send, only the last leaves something to be sure of.
LEMMA CheckSendKeeps == ASSUME NEW t \in Threads, Served(t), CheckWarrant(t) \/ CheckAccepted(t) PROVE Serial'
<1>1. Current(t) \in {"warrant", "accepted"} /\ th[t] \in Thread
  BY AtStep DEF CheckWarrant, CheckAccepted, At
<1>2. Stores'
  BY DEF CheckWarrant, CheckAccepted, Served, Serial, Stores
<1>3. Tail(th[t].todo) # <<>> => Head(Tail(th[t].todo)) \in {"accepted", "clear"}
  BY <1>1, AtStep, NextStep
<1>4. CASE Step(t, th[t])
  BY <1>1, <1>2, <1>3, <1>4, GoesFurther
<1>5. CASE Stop(t)
  BY <1>2, <1>5, EmptyHanded
<1> QED BY <1>4, <1>5 DEF CheckWarrant, CheckAccepted

LEMMA CheckDeliveryKeeps == ASSUME NEW t \in Threads, Served(t), CheckDelivery(t) PROVE Serial'
<1> DEFINE q == th[t].todo  p == Tail(q)
<1>1. /\ q \in Script /\ q # <<>> /\ p \in Script /\ SureAt(Head(q), End(q), th[t], cms, cases, outbox)
      /\ Current(t) = "clear" /\ Head(q) = "clear" /\ th[t] \in Thread
  BY AtStep DEF CheckDelivery, At
<1>2. Stores' /\ UNCHANGED <<cms, cases>>
  BY DEF CheckDelivery, Served, Serial, Stores
<1>3. p # <<>> => End(p) = End(q) /\ Head(p) = "post"
  BY <1>1, TailScript, NextStep
<1>4. ASSUME NEW k \in BlockingDelivery(th[t].c),
             Continue(t, [th[t] EXCEPT !.k = k, !.w = cases[k].w], <<"hold">>)
      PROVE  Serial'
  <2> DEFINE r == [th[t] EXCEPT !.k = k, !.w = cases[k].w]
  <2>1. r \in Thread
    BY CaseTaken DEF BlockingDelivery, Blocking, BlockingPeer
  <2>2. Continue(t, r, <<"hold">>)
    BY <1>4
  <2> HIDE DEF r
  <2> QED BY <1>2, <2>1, <2>2, TurnsTo
<1>5. CASE BlockingDelivery(th[t].c) = {} /\ Step(t, th[t])
  <2>1. Clear(cases, th[t].c) /\ NoPeer(cases)
    <3>1. CASE th[t].c = None
      BY <1>5, <3>1, NothingBlocks DEF BlockingDelivery, Clear
    <3>2. CASE th[t].c # None
      BY <1>5, <3>2, NothingBlocks DEF BlockingDelivery
    <3> QED BY <3>1, <3>2
  <2>2. p # <<>> => SureAt(Head(p), End(p), th[t], cms', cases', outbox')
    BY <1>1, <1>2, <1>3, <2>1 DEF SureAt
  <2>3. Continue(t, th[t], p)
    BY <1>5 DEF Step
  <2> HIDE DEF p
  <2> QED BY <1>1, <1>2, <2>2, <2>3, Onward DEF Served
<1> QED BY <1>4, <1>5 DEF CheckDelivery

LEMMA PostKeeps == ASSUME NEW t \in Threads, Served(t), Post(t) PROVE Serial'
<1>1. Current(t) = "post" /\ th[t] \in Thread
  BY AtStep DEF Post, At
<1>2. Stores'
  BY DEF Post, Served, Serial, Stores
<1>3. Tail(th[t].todo) # <<>> => Head(Tail(th[t].todo)) \in {"delivery", "spend"}
  BY <1>1, AtStep, NextStep
<1>4. CASE Step(t, th[t])
  <2> DEFINE q == th[t].todo  p == Tail(q)
  <2>1. CASE p = <<>> \/ Head(p) = "delivery"
    BY <1>1, <1>2, <1>4, <2>1, GoesFurther
  <2>2. CASE p # <<>> /\ Head(p) = "spend"
    <3>1. /\ q \in Script /\ q # <<>> /\ p \in Script
          /\ SureAt(Head(q), End(q), th[t], cms, cases, outbox)
      BY AtStep
    <3>2. End(p) = End(q)
      BY <2>2, <3>1, TailScript
    <3>3. Continue(t, th[t], p)
      BY <1>4 DEF Step
    <3> HIDE DEF p
    <3>4. End(p) = "spend"
      BY <2>2, <3>1, LastStep
    <3>5. th[t].c = None
      BY <3>1, <3>2, <3>4 DEF SureAt
    <3>6. [c |-> None, w |-> th[t].w] \in outbox'
      BY <3>5 DEF Post
    <3>7. SureAt(Head(p), End(p), th[t], cms', cases', outbox')
      BY <2>2, <3>4, <3>5, <3>6 DEF SureAt
    <3> QED BY <1>1, <1>2, <3>1, <3>3, <3>7, Onward DEF Served
  <2> QED BY <1>3, <2>1, <2>2
<1>5. CASE Stop(t)
  BY <1>2, <1>5, EmptyHanded
<1>6. CASE Continue(t, [th[t] EXCEPT !.kind = "invalid_settlement_notice"], <<"ensure", "hold">>)
  <2> DEFINE r == [th[t] EXCEPT !.kind = "invalid_settlement_notice"]
  <2>1. r \in Thread
    BY <1>1 DEF Thread, Kinds
  <2>2. Continue(t, r, <<"ensure", "hold">>)
    BY <1>6
  <2> HIDE DEF r
  <2> QED BY <1>2, <2>1, <2>2, TurnsTo
<1> QED BY <1>4, <1>5, <1>6 DEF Post

(***************************************************************************)
(* Requests begin.                                                         *)
(***************************************************************************)
Starts(q, s, e) == q \in Script /\ q # <<>> /\ Head(q) = s /\ End(q) = e

LEMMA OperatorScripts ==
    /\ Starts(<<"propose">>, "propose", "propose")
    /\ Starts(<<"review">>, "review", "review")
    /\ Starts(<<"review", "ensure", "hold">>, "review", "hold")
    /\ Starts(<<"check", "ref", "settle">>, "check", "settle")
    /\ Starts(<<"check", "settle">>, "check", "settle")
    /\ Starts(<<"warrant", "accepted", "clear", "post", "delivery">>, "warrant", "delivery")
    /\ Starts(<<"warrant", "clear", "post", "spend">>, "warrant", "spend")
    /\ Starts(<<"open", "hold">>, "open", "hold")
    /\ Starts(<<"caseReview", "hold">>, "caseReview", "hold")
    /\ Starts(<<"caseReview">>, "caseReview", "caseReview")
    /\ Starts(<<"warrantReview">>, "warrantReview", "warrantReview")
BY DEF Starts, Script, Fits, End, Order, StepNames, WriteSteps, WarrantSteps

LEMMA PeerScripts ==
    /\ Starts(<<"validate", "check", "ref", "settle", "finalize">>, "validate", "finalize")
    /\ Starts(<<"validate", "check", "ensure">>, "validate", "ensure")
    /\ Starts(<<"find", "mirror", "hold">>, "find", "hold")
    /\ Starts(<<"find", "mirror">>, "find", "mirror")
BY DEF Starts, Script, Fits, End, Order, StepNames, WriteSteps, WarrantSteps

LEMMA Begins ==
    ASSUME Serial, Watch, alone', NEW t \in Threads, NEW r \in Thread, r.copy = NoCopy,
           NEW q, NEW s, NEW e, Starts(q, s, e), Start(t, r, q), SureAt(s, e, r, cms, cases, outbox),
           UNCHANGED <<cms, cases, warrant, outbox, opened>>
    PROVE  Serial'
<1> DEFINE n == [r EXCEPT !.todo = q]
<1>1. /\ n \in Thread /\ n.todo = q /\ n.copy = NoCopy
      /\ n.by = r.by /\ n.c = r.c /\ n.k = r.k /\ n.w = r.w /\ n.d = r.d
  BY DEF Thread, Starts
<1>2. th' = [th EXCEPT ![t] = n]
  BY DEF Start
<1> HIDE DEF n
<1>3. th' \in [Threads -> Thread] /\ th'[t] = n /\ \A u \in Threads \ {t} : th'[u] = th[u]
  BY <1>1, <1>2 DEF Serial
<1>4. \A u, v \in Threads : Busy(u)' /\ Busy(v)' => u = v
  BY DEF Watch
<1>5. Busy(t)'
  BY <1>1, <1>3 DEF Busy, Starts
<1>6. ASSUME NEW u \in Threads \ {t} PROVE Sure(th[u])' /\ Fresh(th[u])'
  <2>1. ~Busy(u)'
    BY <1>4, <1>5
  <2>2. th'[u].todo = <<>> /\ th'[u].copy = NoCopy
    BY <1>3, <2>1 DEF Serial, Busy, Fresh
  <2> QED BY <2>2 DEF Sure, Fresh
<1>7. Sure(th[t])' /\ Fresh(th[t])'
  BY <1>1, <1>3 DEF Starts, Sure, SureAt, Fresh
<1>8. Stores'
  BY DEF Serial, Stores
<1> QED BY <1>3, <1>4, <1>6, <1>7, <1>8 DEF Serial

LEMMA Requesters ==
    /\ User \in Thread /\ User.copy = NoCopy /\ User.by = "user"
    /\ Sender \in Thread /\ Sender.copy = NoCopy /\ Sender.by = "peer"
BY Nobody DEF User, Sender, Thread

LEMMA CommitmentRequestBegins ==
    ASSUME Serial, Watch, alone', NEW t \in Threads, NEW c \in Ids, CommitmentRequest(t, c),
           UNCHANGED <<cms, cases, warrant, outbox, opened>>
    PROVE  Serial'
<1>1. ASSUME NEW w \in Warrants \cup {None}, Start(t, [User EXCEPT !.c = c, !.w = w], <<"propose">>)
      PROVE  Serial'
  <2> DEFINE r == [User EXCEPT !.c = c, !.w = w]
  <2>1. r \in Thread /\ r.copy = NoCopy /\ Start(t, r, <<"propose">>)
    BY <1>1, Requesters DEF Thread
  <2> HIDE DEF r
  <2>2. SureAt("propose", "propose", r, cms, cases, outbox)
    BY DEF SureAt
  <2> QED BY <2>1, <2>2, OperatorScripts, Begins
<1>2. ASSUME NEW d \in {"accept", "reject", "breach"},
             Start(t, [User EXCEPT !.c = c, !.d = d], <<"review">>)
      PROVE  Serial'
  <2> DEFINE r == [User EXCEPT !.c = c, !.d = d]
  <2>1. r \in Thread /\ r.copy = NoCopy /\ r.d = d /\ Start(t, r, <<"review">>)
    BY <1>2, Requesters DEF Thread, Orders
  <2> HIDE DEF r
  <2>2. SureAt("review", "review", r, cms, cases, outbox)
    BY <2>1 DEF SureAt
  <2> QED BY <2>1, <2>2, OperatorScripts, Begins
<1>3. ASSUME Start(t, [User EXCEPT !.c = c, !.d = "breach", !.kind = "breach_of_commitment",
                                   !.origin = Reported], <<"review", "ensure", "hold">>)
      PROVE  Serial'
  <2> DEFINE r == [User EXCEPT !.c = c, !.d = "breach", !.kind = "breach_of_commitment",
                               !.origin = Reported]
  <2>1. r \in Thread /\ r.copy = NoCopy /\ r.d = "breach" /\ Start(t, r, <<"review", "ensure", "hold">>)
    BY <1>3, Requesters DEF Thread, Orders, Kinds
  <2> HIDE DEF r
  <2>2. SureAt("review", "hold", r, cms, cases, outbox)
    BY <2>1 DEF SureAt
  <2> QED BY <2>1, <2>2, OperatorScripts, Begins
<1>4. ASSUME Start(t, [User EXCEPT !.c = c], SettleSteps(c)) PROVE Serial'
  <2> DEFINE r == [User EXCEPT !.c = c]
  <2>1. r \in Thread /\ r.copy = NoCopy /\ r.c = c /\ r.by = "user" /\ Start(t, r, SettleSteps(c))
    BY <1>4, Requesters DEF Thread
  <2> HIDE DEF r
  <2>2. SureAt("check", "settle", r, cms, cases, outbox)
    BY <2>1 DEF SureAt
  <2>3. Starts(SettleSteps(c), "check", "settle")
    BY OperatorScripts DEF SettleSteps
  <2> QED BY <2>1, <2>2, <2>3, Begins
<1>5. ASSUME NEW w \in Warrants,
             Start(t, [User EXCEPT !.c = c, !.w = w],
                   <<"warrant", "accepted", "clear", "post", "delivery">>)
      PROVE  Serial'
  <2> DEFINE r == [User EXCEPT !.c = c, !.w = w]
  <2>1. /\ r \in Thread /\ r.copy = NoCopy
        /\ Start(t, r, <<"warrant", "accepted", "clear", "post", "delivery">>)
    BY <1>5, Requesters DEF Thread
  <2> HIDE DEF r
  <2>2. SureAt("warrant", "delivery", r, cms, cases, outbox)
    BY <2>1 DEF SureAt
  <2> QED BY <2>1, <2>2, OperatorScripts, Begins
<1> QED BY <1>1, <1>2, <1>3, <1>4, <1>5 DEF CommitmentRequest

LEMMA BareSendBegins ==
    ASSUME Serial, Watch, alone', NEW t \in Threads, BareSend(t), UNCHANGED <<cms, cases, warrant, outbox, opened>>
    PROVE  Serial'
<1>1. PICK w \in Warrants : Start(t, [User EXCEPT !.w = w], <<"warrant", "clear", "post", "spend">>)
  BY DEF BareSend
<1> DEFINE r == [User EXCEPT !.w = w]
<1>2. /\ r \in Thread /\ r.copy = NoCopy /\ r.c = None
      /\ Start(t, r, <<"warrant", "clear", "post", "spend">>)
  BY <1>1, Requesters DEF Thread, User, Idle
<1> HIDE DEF r
<1>3. SureAt("warrant", "spend", r, cms, cases, outbox)
  BY <1>2 DEF SureAt
<1> QED BY <1>2, <1>3, OperatorScripts, Begins

LEMMA CaseRequestBegins ==
    ASSUME Serial, Watch, alone', NEW t \in Threads, CaseRequest(t), UNCHANGED <<cms, cases, warrant, outbox, opened>>
    PROVE  Serial'
<1>1. ASSUME NEW kind \in Kinds, NEW c \in Ids \cup {None}, NEW w \in Warrants \cup {None},
             Start(t, [User EXCEPT !.c = c, !.w = w, !.kind = kind], OpenSteps)
      PROVE  Serial'
  <2> DEFINE r == [User EXCEPT !.c = c, !.w = w, !.kind = kind]
  <2>1. r \in Thread /\ r.copy = NoCopy /\ Start(t, r, <<"open", "hold">>)
    BY <1>1, Requesters DEF Thread, OpenSteps
  <2> HIDE DEF r
  <2>2. SureAt("open", "hold", r, cms, cases, outbox)
    BY DEF SureAt
  <2> QED BY <2>1, <2>2, OperatorScripts, Begins
<1>2. ASSUME NEW k \in 1 .. opened, NEW d \in {"stay", "resolve"}, NEW q, NEW e \in {"hold", "caseReview"},
             Starts(q, "caseReview", e), Start(t, [User EXCEPT !.k = k, !.d = d], q)
      PROVE  Serial'
  <2> DEFINE r == [User EXCEPT !.k = k, !.d = d]
  <2>1. k \in CaseIds /\ k \in Nat
    BY CommitmentsAssumption DEF Serial, Stores, CaseIds
  <2>2. r \in Thread /\ r.copy = NoCopy /\ r.k = k /\ r.d = d /\ Start(t, r, q)
    BY <1>2, <2>1, Requesters DEF Thread, Orders
  <2> HIDE DEF r
  <2>3. SureAt("caseReview", e, r, cms, cases, outbox)
    BY <2>1, <2>2 DEF SureAt
  <2> QED BY <1>2, <2>2, <2>3, Begins
<1> QED BY <1>1, <1>2, OperatorScripts DEF CaseRequest

LEMMA RequestBegins ==
    ASSUME Serial, Watch, alone', NEW t \in Threads, Request(t)
    PROVE  Serial'
<1>1. ASSUME NEW w \in Warrants, NEW d \in {"approved", "stayed", "revoked"},
             Start(t, [User EXCEPT !.w = w, !.d = d], <<"warrantReview">>)
      PROVE  Serial'
  <2> DEFINE r == [User EXCEPT !.w = w, !.d = d]
  <2>1. r \in Thread /\ r.copy = NoCopy /\ Start(t, r, <<"warrantReview">>)
    BY <1>1, Requesters DEF Thread, Orders
  <2> HIDE DEF r
  <2>2. SureAt("warrantReview", "warrantReview", r, cms, cases, outbox)
    BY DEF SureAt
  <2> QED BY <2>1, <2>2, OperatorScripts, Begins DEF Request
<1> QED BY <1>1, CommitmentRequestBegins, BareSendBegins, CaseRequestBegins DEF Request

LEMMA NoticeBegins ==
    ASSUME Serial, Watch, alone', NEW t \in Threads, Notice(t)
    PROVE  Serial'
<1>0. UNCHANGED <<cms, cases, warrant, outbox, opened>>
  BY DEF Notice
<1>1. ASSUME NEW c \in Ids, NEW w \in Warrants \cup {None},
             Start(t, [Sender EXCEPT !.c = c, !.w = w], NoticeSteps)
      PROVE  Serial'
  <2> DEFINE r == [Sender EXCEPT !.c = c, !.w = w]
  <2>1. r \in Thread /\ r.copy = NoCopy /\ r.c = c /\ Start(t, r, NoticeSteps)
    BY <1>1, Requesters DEF Thread
  <2> HIDE DEF r
  <2>2. SureAt("validate", "finalize", r, cms, cases, outbox)
    BY <2>1 DEF SureAt
  <2>3. Starts(NoticeSteps, "validate", "finalize")
    BY PeerScripts DEF NoticeSteps
  <2> QED BY <1>0, <2>1, <2>2, <2>3, Begins
<1>2. ASSUME NEW c \in Ids, NEW w \in Warrants \cup {None},
             Start(t, [Sender EXCEPT !.c = c, !.w = w, !.kind = "invalid_settlement_notice"],
                   <<"validate", "check", "ensure">>)
      PROVE  Serial'
  <2> DEFINE r == [Sender EXCEPT !.c = c, !.w = w, !.kind = "invalid_settlement_notice"]
  <2>1. r \in Thread /\ r.copy = NoCopy /\ Start(t, r, <<"validate", "check", "ensure">>)
    BY <1>2, Requesters DEF Thread, Kinds
  <2> HIDE DEF r
  <2>2. SureAt("validate", "ensure", r, cms, cases, outbox)
    BY DEF SureAt
  <2> QED BY <1>0, <2>1, <2>2, PeerScripts, Begins
<1>3. ASSUME NEW f \in Foreign, NEW c \in Ids \cup {None}, NEW w \in Warrants \cup {None},
             NEW kind \in Kinds, NEW d \in {"open", "stay", "resolve"}, NEW q, NEW e \in {"hold", "mirror"},
             Starts(q, "find", e),
             Start(t, [Sender EXCEPT !.c = c, !.w = w, !.kind = kind, !.d = d, !.origin = f], q)
      PROVE  Serial'
  <2> DEFINE r == [Sender EXCEPT !.c = c, !.w = w, !.kind = kind, !.d = d, !.origin = f]
  <2>1. r \in Thread /\ r.copy = NoCopy /\ r.d = d /\ Start(t, r, q)
    BY <1>3, Requesters DEF Thread, Orders
  <2> HIDE DEF r
  <2>2. SureAt("find", e, r, cms, cases, outbox)
    BY <2>1 DEF SureAt
  <2> QED BY <1>0, <1>3, <2>1, <2>2, Begins
<1>4. CASE UNCHANGED th
  BY <1>0, <1>4 DEF Serial, Stores, Busy, Sure, SureAt, Fresh, StoreOf, WriteSteps, WarrantSteps
<1>5. ASSUME NEW f \in Foreign, CaseNotice(t, f) PROVE Serial'
  BY <1>3, <1>5, PeerScripts DEF CaseNotice
<1>6. ASSUME NEW c \in Ids, SettlementNotice(t, c) PROVE Serial'
  BY <1>1, <1>2, <1>6 DEF SettlementNotice
<1> QED BY <1>4, <1>5, <1>6 DEF Notice

(***************************************************************************)
(* The invariant, and what a step may do while nothing has overlapped.     *)
(***************************************************************************)
\* The handler of a thread leaves the other threads alone.
LEMMA HandlerAlone ==
    ASSUME Serial, Watch, NEW t \in Threads, Handle(t)
    PROVE  Busy(t) /\ \A u \in Threads \ {t} : ~Busy(u) /\ ~Busy(u)'
<1>1. Busy(t) /\ \A u \in Threads \ {t} : th'[u] = th[u]
  <2>1. ASSUME NEW r, NEW rest, Continue(t, r, rest) PROVE \A u \in Threads \ {t} : th'[u] = th[u]
    BY <2>1 DEF Continue, Serial
  <2>2. CASE Load(t)
    BY <2>2 DEF Load, Serial
  <2>3. CASE Propose(t) \/ Review(t) \/ RecordSettlementRef(t) \/ Settle(t) \/ RecordDeliveryRef(t)
    BY <2>1, <2>3 DEF Propose, Review, RecordSettlementRef, Settle, RecordDeliveryRef, Writing, At,
       Step, Stop
  <2>4. CASE Ensure(t) \/ OpenCase(t) \/ ReviewCase(t) \/ FindMirror(t) \/ Mirror(t)
    BY <2>1, <2>4 DEF Ensure, OpenCase, ReviewCase, FindMirror, Mirror, Writing, At, Step, Stop
  <2>5. CASE Hold(t) \/ ReviewWarrant(t) \/ Finalize(t) \/ Spend(t)
    BY <2>1, <2>5 DEF Hold, ReviewWarrant, Finalize, Spend, Writing, At, Step, Stop
  <2>6. CASE \/ ValidateSettlement(t) \/ CheckCase(t) \/ CheckWarrant(t) \/ CheckAccepted(t)
             \/ CheckDelivery(t) \/ Post(t)
    BY <2>1, <2>6 DEF ValidateSettlement, CheckCase, CheckWarrant, CheckAccepted, CheckDelivery, Post,
       At, Step, Stop
  <2> QED BY <2>2, <2>3, <2>4, <2>5, <2>6 DEF Handle
<1> QED BY <1>1 DEF Serial, Busy

LEMMA HandleKeeps ==
    ASSUME NEW t \in Threads, Served(t), Handle(t)
    PROVE  Serial'
BY LoadKeeps, ProposeKeeps, ReviewKeeps, RefKeeps, SettleKeeps, DeliveryRefKeeps, EnsureKeeps,
   OpenCaseKeeps, ReviewCaseKeeps, FindMirrorKeeps, MirrorKeeps, HoldKeeps, ReviewWarrantKeeps,
   FinalizeKeeps, SpendKeeps, ValidateKeeps, CheckCaseKeeps, CheckSendKeeps, CheckDeliveryKeeps, PostKeeps DEF Handle

LEMMA BreakKeeps ==
    ASSUME Serial, Watch, alone', NEW t \in Threads, Break(t)
    PROVE  Serial'
<1>1. Stores'
  BY DEF Break, Serial, Stores
<1>2. <<>> \in Script /\ Idle \in Thread /\ Continue(t, Idle, <<>>) /\ Busy(t)
  BY Instead, Nobody DEF Break, Continue
<1> QED BY <1>1, <1>2, Onward

LEMMA SerialStays == SerialInv /\ [Next]_vars => SerialInv'
<1> SUFFICES ASSUME SerialInv, [Next]_vars PROVE SerialInv'
  OBVIOUS
<1>1. CASE UNCHANGED vars
  BY <1>1 DEF vars, SerialInv, Serial, Stores, Busy, Sure, SureAt, Fresh, StoreOf, WriteSteps, WarrantSteps
<1>2. CASE Next
  <2>1. Watch /\ alone' \in BOOLEAN
    BY <1>2 DEF Next, Watch
  <2>2. SUFFICES ASSUME alone' PROVE Serial'
    BY <2>1 DEF SerialInv
  <2>3. Serial
    BY <2>1, <2>2 DEF Watch, SerialInv
  <2>4. ASSUME NEW t \in Threads, Handle(t) PROVE Serial'
    BY <2>1, <2>2, <2>3, <2>4, HandlerAlone, HandleKeeps DEF Served
  <2> QED BY <1>2, <2>1, <2>2, <2>3, <2>4, RequestBegins, NoticeBegins, BreakKeeps DEF Next
<1> QED BY <1>1, <1>2

LEMMA SerialFirst == Init => SerialInv
<1> SUFFICES ASSUME Init PROVE SerialInv
  OBVIOUS
<1>1. Stores
  BY CommitmentsAssumption DEF Init, Stores, NoCommitment, Commitment, NoCase, Case, Warrant, Orders
<1>2. th = [t \in Threads |-> Idle] /\ alone = TRUE
  BY DEF Init
<1> QED BY <1>1, <1>2, Nobody DEF SerialInv, Serial, Busy, Sure, Fresh

\* What a handler does to commitments, requests and warrants while it is served alone.
LEMMA HandlerObeys ==
    ASSUME Serial, alone, Watch, NEW t \in Threads, Handle(t)
    PROVE  /\ \A c \in Ids : cms[c].state # "settled" /\ cms'[c].state = "settled" =>
                 th[t].c = c /\ At(t, "settle") /\ Clear(cases, c)
                 /\ (th[t].by = "peer" => Settleable(cms[c].state))
           /\ \A m \in outbox' \ outbox : m.c = th[t].c
           /\ outbox' # outbox => Clear(cases, th[t].c) /\ NoPeer(cases)
           /\ \A w \in Warrants : warrant'[w].exec = warrant[w].exec \/
                /\ warrant[w].exec = "ready"
                /\ \/ [c |-> None, w |-> w] \in outbox /\ At(t, "spend") /\ th[t].w = w
                   \/ \E c \in Ids : cms[c].state = "settled" /\ cms[c].ref /\ cms[c].dw = w
<1>1. alone' /\ Served(t)
  BY HandlerAlone DEF Watch, Served
<1>2. cms \in [Ids -> Commitment]
  BY DEF Serial, Stores
<1>3. CASE Propose(t) \/ Review(t) \/ RecordSettlementRef(t) \/ RecordDeliveryRef(t)
  <2>1. th[t].copy = cms /\ (Current(t) = "review" => th[t].d \in {"accept", "reject", "breach"})
    BY <1>1, <1>3, AtStep DEF Propose, Review, RecordSettlementRef, RecordDeliveryRef, Writing, At, StoreOf, WarrantSteps,
       SureAt
  <2>2. CASE Propose(t)
    BY <1>2, <2>1, <2>2 DEF Propose, Commitment, NoCommitment
  <2>3. CASE Review(t)
    <3>1. StateMap(th[t].d) # "settled"
      BY <2>1, <2>3, StateMapIs DEF Review, Writing, At
    <3> QED BY <1>2, <2>1, <2>3, <3>1 DEF Review, Commitment
  <2>4. CASE RecordSettlementRef(t)
    BY <1>2, <2>1, <2>4 DEF RecordSettlementRef, Commitment
  <2>5. CASE RecordDeliveryRef(t)
    BY <1>2, <2>1, <2>5 DEF RecordDeliveryRef, Commitment
  <2> QED BY <1>3, <2>2, <2>3, <2>4, <2>5
<1>4. CASE Settle(t)
  <2>1. /\ At(t, "settle") /\ Current(t) = "settle" /\ th[t].copy = cms
        /\ UNCHANGED <<outbox, warrant, cases>>
    BY <1>1, <1>4, AtStep DEF Settle, Writing, At, StoreOf, WarrantSteps
  <2>2. \A c \in Ids : cms'[c].state # cms[c].state => c = th[t].c
    BY <1>2, <1>4, <2>1 DEF Settle
  <2>3. Clear(cases, th[t].c) /\ (th[t].by = "peer" => Settleable(cms[th[t].c].state))
    BY <1>1, <2>1, AtStep, LastStep DEF SureAt
  <2> QED BY <2>1, <2>2, <2>3
<1>5. CASE Post(t)
  <2>1. Current(t) = "post"
    BY <1>5 DEF Post, At
  <2>2. Clear(cases, th[t].c) /\ NoPeer(cases)
    BY <1>1, <2>1, AtStep DEF SureAt
  <2>3. UNCHANGED <<cms, warrant>> /\ outbox' = outbox \cup {[c |-> th[t].c, w |-> th[t].w]}
    BY <1>5 DEF Post
  <2> QED BY <2>2, <2>3
<1>6. CASE Hold(t) \/ ReviewWarrant(t) \/ Finalize(t) \/ Spend(t)
  <2>1. UNCHANGED <<cms, outbox>>
    BY <1>6 DEF Hold, ReviewWarrant, Finalize, Spend
  <2> QED BY <1>1, <1>6, <2>1, HoldKeeps, ReviewWarrantKeeps, FinalizeKeeps, SpendKeeps
<1>7. CASE \/ Load(t) \/ Ensure(t) \/ OpenCase(t) \/ ReviewCase(t) \/ FindMirror(t) \/ Mirror(t)
           \/ ValidateSettlement(t) \/ CheckCase(t) \/ CheckWarrant(t) \/ CheckAccepted(t) \/ CheckDelivery(t)
  BY <1>7 DEF Load, Ensure, OpenCase, ReviewCase, FindMirror, Mirror, ValidateSettlement, CheckCase,
     CheckWarrant, CheckAccepted, CheckDelivery
<1> QED BY <1>3, <1>4, <1>5, <1>6, <1>7 DEF Handle

\* A step that is no handler's leaves all three as they are.
LEMMA OthersObey ==
    ASSUME NEW t \in Threads, Request(t) \/ Notice(t) \/ Break(t)
    PROVE  UNCHANGED <<cms, outbox, warrant>>
BY DEF Request, Notice, Break

\* For any number of threads, commitments and cases: while no two requests have overlapped, a
\* commitment with an open or stayed case is not settled, and nothing is sent under it or to a
\* peer with a suspension case (_maybe_block_commitment_settlement, _blocking_case_for_delivery).
THEOREM CasesAlwaysBlock == Spec => CasesBlock
<1> DEFINE Blocked ==
       /\ \A c \in Ids : cms[c].state # "settled" /\ cms'[c].state = "settled" => ~Disputed(c)
       /\ \A m \in outbox' \ outbox : ~Disputed(m.c)
       /\ outbox' # outbox => BlockingPeer = {}
<1>1. ASSUME SerialInv, [Next]_vars, alone PROVE Blocked
  <2>1. CASE UNCHANGED <<cms, outbox>>
    BY <2>1
  <2>2. ASSUME NEW t \in Threads, Handle(t), Watch PROVE Blocked
    <3>1. \A c : Clear(cases, c) => ~Disputed(c)
      BY DEF Clear, Disputed, BLOCKING_CASE_STATES
    <3>2. NoPeer(cases) => BlockingPeer = {}
      BY NothingBlocks
    <3>3. \A m \in outbox' \ outbox : outbox' # outbox /\ m.c = th[t].c
      BY <1>1, <2>2, HandlerObeys DEF SerialInv
    <3> QED BY <1>1, <2>2, <3>1, <3>2, <3>3, HandlerObeys DEF SerialInv
  <2> QED BY <1>1, <2>1, <2>2, OthersObey DEF Next, vars
<1>2. SerialInv /\ [Next]_vars => [alone => Blocked]_vars
  BY <1>1
<1> QED BY <1>2, SerialFirst, SerialStays, PTL DEF Spec, CasesBlock

\* For any number of threads, commitments and warrants: while no two requests have overlapped, a
\* notice of the peer settles only an accepted commitment, and a warrant is executed once: by an
\* answered send that names no commitment, or for a settled commitment with recorded proof whose
\* last delivery carried it (_process_received_federation_message, _deliver_federation_envelope,
\* _maybe_finalize_sender_warrant_for_commitment).
THEOREM AlwaysSettledInOrder == Spec => SettledInOrder
<1>1. ASSUME SerialInv, [Next]_vars, alone PROVE InOrder
  <2>1. CASE UNCHANGED <<cms, warrant>>
    BY <2>1 DEF InOrder
  <2>2. ASSUME NEW t \in Threads, Handle(t), Watch PROVE InOrder
    <3>1. \A u \in Threads : At(u, "settle") => u = t
      BY <1>1, <2>2, HandlerAlone DEF SerialInv, At
    <3> QED BY <1>1, <2>2, <3>1, HandlerObeys DEF SerialInv, Settleable, InOrder
  <2> QED BY <1>1, <2>1, <2>2, OthersObey DEF Next, vars, InOrder
<1>2. SerialInv /\ [Next]_vars => [alone => InOrder]_vars
  BY <1>1
<1> QED BY <1>2, SerialFirst, SerialStays, PTL DEF Spec, SettledInOrder
=============================================================================
