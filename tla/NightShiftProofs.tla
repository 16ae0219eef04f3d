----------------------------- MODULE NightShiftProofs -----------------------------
(***************************************************************************)
(* Proofs about the gateway's deliveries and the night shift: the marks    *)
(* on the delivery records tell the truth, no delivery is sent twice, no   *)
(* message is handled twice, and an accepted brief is shown once.          *)
(***************************************************************************)
EXTENDS NightShift, FiniteSetTheorems, TLAPS

Threads == {"poll", "beat", "web"}
AnyText == Texts \cup {NoText, NoBrief} \cup {Brief(v) : v \in 1 .. MaxBriefs}

Records == [chan : {"none", "telegram", "web_api"}, text : AnyText,
            status : {"none", "queued", "delivered", "failed"}, aged : BOOLEAN,
            old : BOOLEAN, dup : BOOLEAN]
Handlers == [pc : {"idle", "route", "check", "queue", "send", "told", "failed"},
             msg : Msgs \cup {"none"}, text : Texts \cup {NoText}, d : 0 .. MaxDeliveries]
Drains == [list : SUBSET Ids, d : 0 .. MaxDeliveries, pc : {"idle", "send", "told", "failed"}]
Processes == [job : {"none", "write", "qa", "deliver", "queue", "wait"}, v : 0 .. MaxBriefs,
              text : AnyText, d : 0 .. MaxDeliveries, match : BOOLEAN]

TypeInv ==
    /\ recs \in [Ids -> Records] /\ hs \in [Threads -> Handlers] /\ drain \in Drains
    /\ tidy \in SUBSET Ids /\ sent \in [Ids -> Nat] /\ torn \in SUBSET Ids
    /\ handled \in [Msgs -> Nat]
    /\ js \in [Runs -> Processes] /\ brief \in 0 .. MaxBriefs /\ judged \in 0 .. MaxBriefs
    /\ drafts \in 0 .. MaxBriefs /\ apart \in BOOLEAN

\* The records are numbered without a gap.
Numbered == \E n \in 0 .. MaxDeliveries : Made = 1 .. n

\* A message handled before is remembered, or its mark has lapsed.
HandledInv ==
    \A m \in Msgs : /\ handled[m] > 0 => m \in seen \cup lapsed
                    /\ handled[m] > 1 => m \in lapsed

Sending == {"send", "told", "failed"}
\* What holds of a number no record has yet.
Unused(d) ==
    /\ sent[d] = 0 /\ d \notin torn /\ ~Held(d)
    /\ drain.d # d /\ d \notin drain.list /\ d \notin tidy
\* What holds of a record whose sender was neither slow nor cut short: one thread holds
\* it, young, or the drain has it, and it is sent only while somebody is about to mark it.
Calm(d) ==
    /\ \A a, b \in Threads : hs[a].d = d /\ hs[b].d = d => a = b
    /\ \A a \in Threads : hs[a].d = d =>
          /\ recs[d].status = "queued" /\ ~recs[d].aged /\ d \notin drain.list /\ drain.d # d
          /\ hs[a].pc \in {"send", "failed"} => sent[d] = 0
    /\ d \in drain.list =>
          /\ recs[d].status = "queued" /\ recs[d].aged /\ recs[d].chan = "telegram"
          /\ sent[d] = 0 /\ drain.d # d
    /\ drain.d = d =>
          /\ recs[d].status = "queued" /\ recs[d].aged /\ recs[d].chan = "telegram"
          /\ drain.pc \in {"send", "failed"} => sent[d] = 0
    /\ recs[d].status = "queued" /\ sent[d] > 0 => Held(d) \/ drain.d = d
    /\ recs[d].status = "queued" /\ recs[d].chan = "web_api" => Held(d)
    /\ recs[d].status = "failed" => sent[d] = 0
    /\ sent[d] <= 1
    /\ d \notin tidy
\* What holds of every record.
Told(d) ==
    /\ \A a \in Threads : hs[a].d = d /\ hs[a].pc = "told" => sent[d] > 0
    /\ drain.d = d /\ drain.pc = "told" => sent[d] > 0
    /\ recs[d].status = "delivered" /\ ~recs[d].dup => sent[d] > 0
RecordInv ==
    /\ \A a \in Threads : hs[a].pc \notin Sending => hs[a].d = 0
    /\ drain.pc = "idle" => drain.d = 0
    /\ \A d \in Ids : recs[d].status = "none" => Unused(d)
    /\ \A d \in Ids \ torn : Calm(d)
    /\ \A d \in Ids : Told(d)

\* An accepting report is about an accepted version, and so is what is delivered from it.
QaInv ==
    /\ verdict = "accept" => judged \in accepted
    /\ \A r \in Runs : js[r].job \in {"deliver", "queue", "wait"}
                       /\ js[r].text = Brief(js[r].v) /\ js[r].match => js[r].v \in accepted

ApartInv == apart => \A r, q \in Runs : js[r] # Rest /\ js[q] # Rest => r = q

Of(v) == {d \in Made : recs[d].text = Brief(v)}
\* Of a brief's records at most one is not failed, and none when another is to be queued.
BriefInv ==
    \A v \in 1 .. MaxBriefs :
        /\ \A d \in Of(v) : recs[d].chan = "telegram"
        /\ apart /\ (\A d \in Of(v) : d \notin torn) =>
              /\ \A d, e \in Of(v) : d # e => recs[d].status = "failed" \/ recs[e].status = "failed"
              /\ \A r \in Runs : js[r].job = "queue" /\ js[r].text = Brief(v)
                                 => \A d \in Of(v) : recs[d].status = "failed"

Inv == TypeInv /\ Numbered /\ HandledInv /\ RecordInv /\ QaInv /\ ApartInv /\ BriefInv

---------------------------------------------------------------------------
(***************************************************************************)
(* Types                                                                   *)
(***************************************************************************)
LEMMA RestTyped == Rest \in Processes /\ Rest.job = "none"
BY NightShiftAssumption, ChannelAssumption DEF Rest, Processes, AnyText

LEMMA IdleTyped == Idle \in Handlers /\ Idle.d = 0 /\ Idle.pc = "idle" /\ Idle.msg = "none"
BY ChannelAssumption DEF Idle, Handlers

LEMMA InitTyped == Init => TypeInv
<1> SUFFICES ASSUME Init PROVE TypeInv OBVIOUS
<1> USE DEF Init, ChInit
<1>1. NoRecord \in Records BY DEF NoRecord, Records, AnyText
<1>2. recs \in [Ids -> Records] BY <1>1
<1>3. hs \in [Threads -> Handlers] BY IdleTyped DEF Threads
<1>4. drain \in Drains BY ChannelAssumption DEF Drains, Ids
<1>5. js \in [Runs -> Processes] BY RestTyped
<1> QED BY <1>2, <1>3, <1>4, <1>5, NightShiftAssumption DEF TypeInv

\* Marking a record leaves all records typed.
LEMMA MarkTyped ==
  ASSUME TypeInv, NEW d \in 0 .. MaxDeliveries, NEW status \in {"delivered", "failed"},
         NEW dup \in BOOLEAN, Mark(d, status, dup)
  PROVE  recs' \in [Ids -> Records] /\ torn' \in SUBSET Ids
<1>1. CASE recs' = [recs EXCEPT ![d].status = status, ![d].dup = dup] /\ d \in Ids /\ torn' = torn
  <2>1. [recs[d] EXCEPT !.status = status, !.dup = dup] \in Records
    BY <1>1 DEF TypeInv, Records
  <2>2. recs' = [recs EXCEPT ![d] = [recs[d] EXCEPT !.status = status, !.dup = dup]]
    BY <1>1 DEF TypeInv, Records
  <2> QED BY <1>1, <2>1, <2>2 DEF TypeInv
<1> QED BY <1>1 DEF Mark, TypeInv, Ids

\* Queueing a record adds one, and only it.
LEMMA QueueTyped ==
  ASSUME TypeInv, NEW chan \in {"telegram", "web_api"}, NEW x \in AnyText, Queue(chan, x)
  PROVE  /\ recs' \in [Ids -> Records] /\ Fresh \in Ids
         /\ \A d \in Ids : d # Fresh => recs'[d] = recs[d]
         /\ recs'[Fresh].chan = chan /\ recs'[Fresh].text = x /\ recs'[Fresh].status = "queued"
         /\ recs'[Fresh].aged = FALSE /\ recs'[Fresh].old = FALSE /\ recs'[Fresh].dup = FALSE
<1> DEFINE r == [NoRecord EXCEPT !.chan = chan, !.text = x, !.status = "queued"]
           n == Fresh
<1>1. /\ r \in Records /\ r.chan = chan /\ r.text = x /\ r.status = "queued"
      /\ r.aged = FALSE /\ r.old = FALSE /\ r.dup = FALSE
  BY DEF NoRecord, Records
<1>2. n \in Ids /\ recs' = [recs EXCEPT ![n] = r] BY DEF Queue
<1> HIDE DEF r, n
<1>3. recs' \in [Ids -> Records] /\ recs'[n] = r /\ \A d \in Ids : d # n => recs'[d] = recs[d]
  BY <1>1, <1>2 DEF TypeInv
<1> QED BY <1>1, <1>2, <1>3 DEF n

\* A handler whose place is changed stays a handler.
LEMMA HandlerTyped ==
  ASSUME TypeInv, NEW a \in Threads, NEW h \in Handlers, hs' = [hs EXCEPT ![a] = h]
  PROVE  hs' \in [Threads -> Handlers]
BY DEF TypeInv

LEMMA ChannelTyped ==
  ASSUME TypeInv, ChNext, UNCHANGED nsvars
  PROVE  TypeInv'
<1> USE DEF nsvars
<1>1. ASSUME NEW m \in Msgs, Receive(m) PROVE TypeInv'
  <2>1. CASE UNCHANGED <<hs, handled>> BY <1>1, <2>1 DEF Receive, TypeInv, Ids
  <2>2. CASE /\ hs' = [hs EXCEPT !["poll"] = [Idle EXCEPT !.pc = "route", !.msg = m]]
             /\ handled' = [handled EXCEPT ![m] = @ + 1]
    <3>1. [Idle EXCEPT !.pc = "route", !.msg = m] \in Handlers
      BY IdleTyped DEF Handlers
    <3>2. hs' \in [Threads -> Handlers] BY <2>2, <3>1 DEF TypeInv, Threads
    <3>3. handled' \in [Msgs -> Nat] BY <2>2 DEF TypeInv
    <3> QED BY <1>1, <3>2, <3>3 DEF Receive, TypeInv, Ids
  <2> QED BY <1>1, <2>1, <2>2 DEF Receive
<1>2. ASSUME NEW m \in Msgs, Lapse(m) PROVE TypeInv' BY <1>2 DEF Lapse, TypeInv, Ids
<1>3. CASE Poll BY <1>3 DEF Poll, TypeInv, Ids
<1>4. ASSUME NEW a \in Threads, Answer(a) PROVE TypeInv'
  <2>1. hs' \in [Threads -> Handlers]
    <3>1. CASE hs' = [hs EXCEPT ![a] = Idle] BY <3>1, IdleTyped DEF TypeInv
    <3>2. ASSUME NEW x \in Texts, hs' = [hs EXCEPT ![a].text = x,
                                        ![a].pc = IF a = "web" THEN "queue" ELSE "check"]
          PROVE  hs' \in [Threads -> Handlers]
      <4>1. [hs[a] EXCEPT !.text = x, !.pc = IF a = "web" THEN "queue" ELSE "check"] \in Handlers
        BY DEF TypeInv, Handlers
      <4> QED BY <3>2, <4>1 DEF TypeInv, Handlers
    <3> QED BY <1>4, <3>1, <3>2 DEF Answer
  <2> QED BY <1>4, <2>1 DEF Answer, TypeInv, Ids
<1>5. ASSUME NEW a \in Threads, Check(a) PROVE TypeInv'
  <2>1. [hs[a] EXCEPT !.pc = "queue"] \in Handlers BY DEF TypeInv, Handlers
  <2>2. hs' \in [Threads -> Handlers] BY <1>5, <2>1, IdleTyped DEF Check, TypeInv
  <2> QED BY <1>5, <2>2 DEF Check, TypeInv, Ids
<1>6. ASSUME NEW a \in Threads, Enqueue(a) PROVE TypeInv'
  <2>1. CASE /\ Queue(IF a = "web" THEN "web_api" ELSE "telegram", hs[a].text)
             /\ hs' = [hs EXCEPT ![a].pc = "send", ![a].d = Fresh] /\ UNCHANGED faults
    <3>1. hs[a].text \in AnyText BY DEF TypeInv, Handlers, AnyText
    <3>2. recs' \in [Ids -> Records] /\ Fresh \in Ids BY <2>1, <3>1, QueueTyped
    <3>3. hs' \in [Threads -> Handlers]
      <4> DEFINE n == Fresh
      <4>1. hs[a] \in Handlers /\ n \in 0 .. MaxDeliveries
        BY <3>2, ChannelAssumption DEF TypeInv, Ids
      <4>2. hs' = [hs EXCEPT ![a].pc = "send", ![a].d = n] BY <2>1
      <4> HIDE DEF n
      <4>3. [hs[a] EXCEPT !.pc = "send", !.d = n] \in Handlers BY <4>1 DEF Handlers
      <4> QED BY <4>2, <4>3 DEF TypeInv, Handlers
    <3> QED BY <1>6, <3>2, <3>3 DEF Enqueue, TypeInv, Ids
  <2>2. CASE hs' = [hs EXCEPT ![a].pc = "send"] /\ UNCHANGED <<recs, order>>
    <3>1. [hs[a] EXCEPT !.pc = "send"] \in Handlers BY DEF TypeInv, Handlers
    <3>2. hs' \in [Threads -> Handlers] BY <2>2, <3>1 DEF TypeInv, Handlers
    <3> QED BY <1>6, <2>2, <3>2 DEF Enqueue, TypeInv, Ids
  <2> QED BY <1>6, <2>1, <2>2 DEF Enqueue
<1>7. ASSUME NEW a \in Threads, Send(a) PROVE TypeInv'
  <2>1. sent' \in [Ids -> Nat] BY <1>7 DEF Send, Reached, TypeInv
  <2>2. [hs[a] EXCEPT !.pc = "told"] \in Handlers /\ [hs[a] EXCEPT !.pc = "failed"] \in Handlers
    BY DEF TypeInv, Handlers
  <2>3. hs' \in [Threads -> Handlers] BY <1>7, <2>2 DEF Send, TypeInv, Handlers
  <2> QED BY <1>7, <2>1, <2>3 DEF Send, TypeInv, Ids
<1>8. ASSUME NEW a \in Threads, Finish(a) PROVE TypeInv'
  <2>1. hs[a].d \in 0 .. MaxDeliveries BY DEF TypeInv, Handlers
  <2>2. PICK st \in {"delivered", "failed"} : Mark(hs[a].d, st, FALSE) BY <1>8 DEF Finish
  <2>3. recs' \in [Ids -> Records] /\ torn' \in SUBSET Ids BY <2>1, <2>2, MarkTyped
  <2>4. hs' \in [Threads -> Handlers] BY <1>8, IdleTyped DEF Finish, TypeInv
  <2> QED BY <1>8, <2>3, <2>4 DEF Finish, TypeInv, Ids
<1>9. CASE DrainList
  <2>1. drain' \in Drains BY <1>9 DEF DrainList, TypeInv, Drains, Waiting, Listed, Made, Ids
  <2> QED BY <1>9, <2>1 DEF DrainList, TypeInv, Ids
<1>10. CASE DrainSend
  <2>1. drain' \in Drains BY <1>10 DEF DrainSend, TypeInv, Drains
  <2>2. sent' \in [Ids -> Nat] BY <1>10 DEF DrainSend, Reached, TypeInv
  <2> QED BY <1>10, <2>1, <2>2 DEF DrainSend, TypeInv, Ids
<1>11. CASE DrainMark
  <2>1. drain.d \in 0 .. MaxDeliveries BY DEF TypeInv, Drains
  <2>2. PICK st \in {"delivered", "failed"} : Mark(drain.d, st, FALSE) BY <1>11 DEF DrainMark
  <2>3. recs' \in [Ids -> Records] /\ torn' \in SUBSET Ids BY <2>1, <2>2, MarkTyped
  <2>4. drain' \in Drains
    <3>1. drain \in Drains /\ 0 \in 0 .. MaxDeliveries BY ChannelAssumption DEF TypeInv
    <3>2. drain' = [drain EXCEPT !.d = 0, !.pc = "idle"] BY <1>11 DEF DrainMark
    <3> QED BY <3>1, <3>2 DEF Drains
  <2> QED BY <1>11, <2>3, <2>4 DEF DrainMark, TypeInv, Ids
<1>12. CASE TidyList BY <1>12 DEF TidyList, TypeInv, Listed, Made, Ids
<1>13. CASE Crash
  <2>1. hs' = [a \in Threads |-> Idle] BY <1>13 DEF Crash, TypeInv
  <2>2. hs' \in [Threads -> Handlers] BY <2>1, IdleTyped
  <2>3. drain' \in Drains BY <1>13, ChannelAssumption DEF Crash, Drains
  <2>4. torn' \in SUBSET Ids BY <1>13 DEF Crash, TypeInv
  <2> QED BY <1>13, <2>2, <2>3, <2>4 DEF Crash, TypeInv, Ids
<1>14. ASSUME NEW d \in Ids, DrainNext(d) PROVE TypeInv'
  <2>1. drain' \in Drains
    <3>1. drain \in Drains /\ d \in 0 .. MaxDeliveries BY ChannelAssumption DEF TypeInv, Ids
    <3>2. \/ drain' = [list |-> drain.list \ {d}, d |-> d, pc |-> "send"]
          \/ drain' = [drain EXCEPT !.list = @ \ {d}]
      BY <1>14 DEF DrainNext
    <3> QED BY <3>1, <3>2 DEF Drains
  <2>2. recs' \in [Ids -> Records] /\ torn' \in SUBSET Ids
    <3>1. d \in 0 .. MaxDeliveries BY ChannelAssumption DEF Ids
    <3>2. CASE Mark(d, "delivered", TRUE) BY <3>1, <3>2, MarkTyped
    <3> QED BY <1>14, <3>2 DEF DrainNext, TypeInv
  <2> QED BY <1>14, <2>1, <2>2 DEF DrainNext, TypeInv, Ids
<1>15. ASSUME NEW d \in Ids, TidyMark(d) PROVE TypeInv'
  <2>1. d \in 0 .. MaxDeliveries BY ChannelAssumption DEF Ids
  <2>2. recs' \in [Ids -> Records] /\ torn' \in SUBSET Ids BY <1>15, <2>1, MarkTyped DEF TidyMark
  <2> QED BY <1>15, <2>2 DEF TidyMark, TypeInv, Ids
<1>16. ASSUME NEW d \in Ids, Age(d) PROVE TypeInv'
  <2>1. [recs[d] EXCEPT !.aged = TRUE] \in Records BY DEF TypeInv, Records
  <2>2. recs' \in [Ids -> Records] BY <1>16, <2>1 DEF Age, TypeInv, Records
  <2>3. torn' \in SUBSET Ids BY <1>16 DEF Age, TypeInv
  <2> QED BY <1>16, <2>2, <2>3 DEF Age, TypeInv, Ids
<1>17. ASSUME NEW d \in Ids, Forget(d) PROVE TypeInv'
  <2>1. [recs[d] EXCEPT !.old = TRUE] \in Records BY DEF TypeInv, Records
  <2>2. recs' \in [Ids -> Records] BY <1>17, <2>1 DEF Forget, TypeInv, Records
  <2> QED BY <1>17, <2>2 DEF Forget, TypeInv, Ids
<1>18. DOMAIN hs = Threads BY DEF TypeInv
<1>19. CASE Foreign
  <2>1. PICK x \in AnyText : Queue("telegram", x) BY <1>19 DEF Foreign, AnyText
  <2>2. recs' \in [Ids -> Records] BY <2>1, QueueTyped
  <2> QED BY <1>19, <2>2 DEF Foreign, TypeInv, Ids
<1> QED BY <1>1, <1>2, <1>3, <1>4, <1>5, <1>6, <1>7, <1>8, <1>9, <1>10, <1>11, <1>12, <1>13,
           <1>14, <1>15, <1>16, <1>17, <1>18, <1>19 DEF ChNext

\* What a process that starts is.
LEMMA StartTyped ==
  ASSUME TypeInv, NEW r \in Runs, NEW job \in {"write", "qa", "deliver"},
         NEW v \in 0 .. MaxBriefs, NEW x \in AnyText, Start(r, job, v, x)
  PROVE  \E p \in Processes :
           /\ js' = [js EXCEPT ![r] = p] /\ js' \in [Runs -> Processes] /\ apart' \in BOOLEAN
           /\ p.job = job /\ p.v = v /\ p.text = x /\ (p.match <=> brief = judged) /\ p # Rest
<1> DEFINE same == brief = judged
           p == [Rest EXCEPT !.job = job, !.v = v, !.text = x, !.match = same]
<1>1. same \in BOOLEAN OBVIOUS
<1>2. js' = [js EXCEPT ![r] = p] /\ apart' \in BOOLEAN BY DEF Start, TypeInv
<1>3. (same <=> brief = judged) OBVIOUS
<1> HIDE DEF same
<1>4. p \in Processes /\ p.job = job /\ p.v = v /\ p.text = x /\ p.match = same
  BY <1>1, RestTyped DEF Processes
<1>5. p # Rest BY <1>4, RestTyped
<1> HIDE DEF p
<1>6. js' \in [Runs -> Processes] BY <1>2, <1>4 DEF TypeInv
<1> QED BY <1>1, <1>2, <1>3, <1>4, <1>5, <1>6

LEMMA StopTyped ==
  ASSUME TypeInv, NEW r \in Runs, Stop(r)
  PROVE  js' \in [Runs -> Processes] /\ apart' \in BOOLEAN
BY RestTyped DEF Stop, TypeInv

LEMMA JobTyped ==
  ASSUME TypeInv, NEW r \in Runs, Job(r)
  PROVE  TypeInv'
<1> USE DEF chvars
<1>0. js[r] \in Processes /\ js[r].v \in 0 .. MaxBriefs BY DEF TypeInv, Processes
<1>1. CASE Kickoff(r) BY <1>1 DEF Kickoff, Once, TypeInv, Ids
<1>2. CASE Research(r) BY <1>2 DEF Research, Once, TypeInv, Ids
<1>3. CASE StartWrite(r)
  <2>1. drafts + 1 \in 0 .. MaxBriefs BY <1>3, NightShiftAssumption DEF StartWrite, TypeInv
  <2>2. NoText \in AnyText /\ Start(r, "write", drafts + 1, NoText) BY <1>3 DEF StartWrite, AnyText
  <2>3. js' \in [Runs -> Processes] /\ apart' \in BOOLEAN BY <2>1, <2>2, StartTyped
  <2> QED BY <1>3, <2>1, <2>3 DEF StartWrite, TypeInv, Ids
<1>4. CASE FinishWrite(r) BY <1>0, <1>4, StopTyped DEF FinishWrite, TypeInv, Ids
<1>5. CASE StartQa(r)
  <2>1. NoText \in AnyText /\ Start(r, "qa", brief, NoText) /\ brief \in 0 .. MaxBriefs
    BY <1>5 DEF StartQa, AnyText, TypeInv
  <2>2. js' \in [Runs -> Processes] /\ apart' \in BOOLEAN BY <2>1, StartTyped
  <2> QED BY <1>5, <2>2 DEF StartQa, TypeInv, Ids
<1>6. CASE FinishQa(r) BY <1>0, <1>6, StopTyped DEF FinishQa, TypeInv, Ids
<1>7. CASE StartDeliver(r)
  <2> DEFINE x == IF brief # 0 /\ verdict = "accept" THEN Brief(brief) ELSE NoBrief
  <2>1. x \in AnyText /\ brief \in 0 .. MaxBriefs BY DEF TypeInv, AnyText
  <2>2. Start(r, "deliver", brief, x) BY <1>7 DEF StartDeliver
  <2>3. js' \in [Runs -> Processes] /\ apart' \in BOOLEAN
    <3> HIDE DEF x
    <3> QED BY <2>1, <2>2, StartTyped
  <2> QED BY <1>7, <2>3 DEF StartDeliver, TypeInv, Ids
<1>8. CASE Offer(r)
  <2>1. [js[r] EXCEPT !.job = "queue"] \in Processes BY <1>0 DEF Processes
  <2>2. CASE Stop(r) BY <1>8, <2>2, StopTyped DEF Offer, TypeInv, Ids
  <2>3. CASE js' = [js EXCEPT ![r].job = "queue"] /\ UNCHANGED apart
    <3>1. js' \in [Runs -> Processes] BY <2>1, <2>3 DEF TypeInv, Processes
    <3> QED BY <1>8, <2>3, <3>1 DEF Offer, TypeInv, Ids
  <2> QED BY <1>8, <2>2, <2>3 DEF Offer
<1>9. CASE QueueBrief(r)
  <2>1. js[r].text \in AnyText /\ Queue("telegram", js[r].text) BY <1>0, <1>9 DEF QueueBrief, Processes
  <2>2. recs' \in [Ids -> Records] /\ Fresh \in Ids BY <2>1, QueueTyped
  <2>3. js' \in [Runs -> Processes]
    <3> DEFINE n == Fresh
    <3>1. n \in 0 .. MaxDeliveries BY <2>2, ChannelAssumption DEF Ids
    <3>2. js' = [js EXCEPT ![r].job = "wait", ![r].d = n] BY <1>9 DEF QueueBrief
    <3> HIDE DEF n
    <3>3. [js[r] EXCEPT !.job = "wait", !.d = n] \in Processes BY <1>0, <3>1 DEF Processes
    <3> QED BY <3>2, <3>3 DEF TypeInv, Processes
  <2> QED BY <1>9, <2>2, <2>3 DEF QueueBrief, TypeInv, Ids
<1>10. CASE Handoff(r) BY <1>10, StopTyped DEF Handoff, TypeInv, Ids
<1> QED BY <1>1, <1>2, <1>3, <1>4, <1>5, <1>6, <1>7, <1>8, <1>9, <1>10 DEF Job

LEMMA NextTyped == TypeInv /\ [Next]_vars => TypeInv'
<1>1. CASE UNCHANGED vars BY <1>1 DEF TypeInv, Ids, vars, chvars, nsvars
<1> QED BY <1>1, ChannelTyped, JobTyped DEF Next

\* Records, handlers and processes keep the types they are created with.
THEOREM Typed == Spec => []TypeInv
<1> QED BY InitTyped, NextTyped, PTL DEF Spec

---------------------------------------------------------------------------
(***************************************************************************)
(* Messages are handled once                                               *)
(***************************************************************************)
LEMMA HandledStep == TypeInv /\ HandledInv /\ [Next]_vars => HandledInv'
<1> SUFFICES ASSUME TypeInv, HandledInv, [Next]_vars PROVE HandledInv' OBVIOUS
<1>1. ASSUME NEW m \in Msgs, Receive(m) PROVE HandledInv'
  <2>1. CASE UNCHANGED <<hs, handled>>
    BY <1>1, <2>1 DEF Receive, HandledInv
  <2>2. CASE m \notin seen /\ handled' = [handled EXCEPT ![m] = @ + 1]
    BY <1>1, <2>2 DEF Receive, HandledInv, TypeInv
  <2> QED BY <1>1, <2>1, <2>2 DEF Receive
<1>2. ASSUME NEW m \in Msgs, Lapse(m) PROVE HandledInv'
  BY <1>2 DEF Lapse, HandledInv
<1>3. CASE UNCHANGED <<handled, seen, lapsed>> BY <1>3 DEF HandledInv
<1>4. ASSUME NEW a \in DOMAIN hs, Answer(a) \/ Check(a) \/ Enqueue(a) \/ Send(a) \/ Finish(a)
      PROVE  UNCHANGED <<handled, seen, lapsed>>
  BY <1>4 DEF Answer, Check, Enqueue, Send, Finish
<1>5. ASSUME NEW d \in Ids, DrainNext(d) \/ TidyMark(d) \/ Age(d) \/ Forget(d)
      PROVE  UNCHANGED <<handled, seen, lapsed>>
  BY <1>5 DEF DrainNext, TidyMark, Age, Forget
<1>6. ASSUME NEW r \in Runs, Job(r) PROVE UNCHANGED <<handled, seen, lapsed>>
  BY <1>6 DEF Job, Kickoff, Research, StartWrite, FinishWrite, StartQa, FinishQa, StartDeliver,
              Offer, QueueBrief, Handoff, chvars
<1>7. ASSUME \/ Poll \/ Foreign \/ DrainList \/ DrainSend \/ DrainMark \/ TidyList \/ Crash
             \/ UNCHANGED vars
      PROVE  UNCHANGED <<handled, seen, lapsed>>
  BY <1>7 DEF Poll, Foreign, DrainList, DrainSend, DrainMark, TidyList, Crash, vars, chvars
<1> QED BY <1>1, <1>2, <1>3, <1>4, <1>5, <1>6, <1>7 DEF Next, ChNext

\* A message is recorded as seen in the step that hands it to the team, so Telegram can hand it
\* out again after a restart and it is still handled once within the window of the marks.
THEOREM MessagesHandledOnce == Spec => []HandledOnce
<1>1. Init => HandledInv BY DEF Init, ChInit, HandledInv
<1>2. HandledInv => HandledOnce BY DEF HandledInv, HandledOnce
<1>3. Init => TypeInv BY InitTyped
<1> QED BY <1>1, <1>2, <1>3, Typed, HandledStep, PTL DEF Spec

---------------------------------------------------------------------------
(***************************************************************************)
(* What is known of every delivery record                                  *)
(***************************************************************************)
\* Marking a record changes its status and nothing else, or leaves it torn.
LEMMA MarkEffect ==
  ASSUME TypeInv, NEW d \in 0 .. MaxDeliveries, NEW status \in {"delivered", "failed"},
         NEW dup \in BOOLEAN, Mark(d, status, dup)
  PROVE  \/ /\ d \in Ids /\ torn' = torn
            /\ recs'[d].status = status /\ recs'[d].dup = dup
            /\ recs'[d].chan = recs[d].chan /\ recs'[d].text = recs[d].text
            /\ recs'[d].aged = recs[d].aged
            /\ \A e \in Ids : e # d => recs'[e] = recs[e]
         \/ recs' = recs /\ torn' = torn /\ d = 0
         \/ recs' = recs /\ torn' = torn \cup {d} /\ d \in Ids
BY DEF Mark, TypeInv, Records

LEMMA Quiet ==
  ASSUME TypeInv, TypeInv', RecordInv, UNCHANGED <<recs, drain, tidy, sent, torn>>,
         NEW a \in Threads, \A b \in Threads : b # a => hs'[b] = hs[b],
         hs[a].d = 0, hs'[a].d = 0
  PROVE  RecordInv'
<1>1. DOMAIN hs = Threads /\ DOMAIN hs' = Threads BY DEF TypeInv
<1>2. \A d \in Ids : d # 0 BY DEF Ids
<1>3. \A d \in Ids, b \in Threads : hs'[b].d = d => b # a /\ hs'[b] = hs[b] BY <1>2
<1>4. \A d \in Ids, b \in Threads : hs[b].d = d => b # a /\ hs'[b] = hs[b] BY <1>2
<1>5. \A d \in Ids : Held(d)' <=> Held(d) BY <1>1, <1>3, <1>4 DEF Held
<1>6. \A d \in Ids : Unused(d) => Unused(d)' BY <1>5 DEF Unused, Held
<1>7. \A d \in Ids : Calm(d) => Calm(d)' BY <1>3, <1>5 DEF Calm
<1>8. \A d \in Ids : Told(d) => Told(d)' BY <1>3 DEF Told
<1>9. \A b \in Threads : hs'[b].pc \notin Sending => hs'[b].d = 0 BY DEF RecordInv
<1> QED BY <1>6, <1>7, <1>8, <1>9 DEF RecordInv, Ids

LEMMA FreshUnused ==
  ASSUME TypeInv, Numbered, Fresh \in Ids
  PROVE  recs[Fresh].status = "none" /\ Fresh \in Nat \ {0}
<1>1. PICK n \in 0 .. MaxDeliveries : Made = 1 .. n BY DEF Numbered
<1>2. Cardinality(Made) = n BY <1>1, FS_Interval
<1>3. Fresh = n + 1 BY <1>2 DEF Fresh
<1>4. Fresh \notin Made BY <1>1, <1>3
<1> QED BY <1>3, <1>4 DEF Made

LEMMA EnqueueKeeps ==
  ASSUME TypeInv, TypeInv', RecordInv, Numbered, NEW a \in Threads, Enqueue(a)
  PROVE  RecordInv'
<1>0. hs[a].pc = "queue" /\ hs[a].d = 0 /\ hs[a] \in Handlers /\ hs' \in [Threads -> Handlers]
  BY DEF Enqueue, RecordInv, Sending, TypeInv
<1>1. CASE Queue(IF a = "web" THEN "web_api" ELSE "telegram", hs[a].text)
           /\ hs' = [hs EXCEPT ![a].pc = "send", ![a].d = Fresh]
  <2>1. hs[a].text \in AnyText BY <1>0 DEF Handlers, AnyText
  <2>a. Fresh \in Ids BY <1>1, <2>1, QueueTyped
  <2>b. PICK n \in Ids : n = Fresh BY <2>a
  <2>2. /\ \A d \in Ids : d # n => recs'[d] = recs[d]
        /\ recs'[n].chan = (IF a = "web" THEN "web_api" ELSE "telegram")
        /\ recs'[n].status = "queued" /\ recs'[n].aged = FALSE /\ recs'[n].dup = FALSE
    BY <1>1, <2>1, <2>b, QueueTyped
  <2>3. recs[n].status = "none" /\ n # 0 BY <2>b, FreshUnused
  <2>4. hs' = [hs EXCEPT ![a].pc = "send", ![a].d = n] BY <1>1, <2>b
  <2>5. hs'[a].pc = "send" /\ hs'[a].d = n /\ \A b \in Threads : b # a => hs'[b] = hs[b]
    BY <1>0, <2>4 DEF TypeInv, Handlers
  <2>6. UNCHANGED <<drain, tidy, sent, torn>> BY DEF Enqueue
  <2>7. DOMAIN hs = Threads /\ DOMAIN hs' = Threads /\ 0 \notin Ids BY DEF TypeInv, Ids
  <2>8. Unused(n) BY <2>2, <2>3 DEF RecordInv
  <2>9. Calm(n)' /\ Told(n)'
    <3>1. \A b \in Threads : hs[b].d # n BY <2>7, <2>8 DEF Unused, Held
    <3>2. \A b \in Threads : hs'[b].d = n <=> b = a BY <2>5, <3>1
    <3>3. Held(n)' BY <2>5, <2>7 DEF Held
    <3> QED BY <2>2, <2>5, <2>6, <2>8, <3>2, <3>3 DEF Calm, Told, Unused
  <2>10. ASSUME NEW d \in Ids, d # n
         PROVE  /\ (Held(d)' <=> Held(d)) /\ recs'[d] = recs[d]
                /\ \A b \in Threads : hs'[b].d = d => hs'[b] = hs[b] /\ b # a
    <3>1. \A b \in Threads : hs'[b].d = d => hs'[b] = hs[b] /\ b # a BY <2>5, <2>10
    <3>2. \A b \in Threads : hs[b].d = d => hs'[b] = hs[b] /\ b # a BY <1>0, <2>5, <2>7
    <3> QED BY <2>2, <2>7, <2>10, <3>1, <3>2 DEF Held
  <2>11. ASSUME NEW d \in Ids, d # n
         PROVE  (Unused(d) => Unused(d)') /\ (Calm(d) => Calm(d)') /\ (Told(d) => Told(d)')
    <3>1. /\ (Held(d)' <=> Held(d))
          /\ recs'[d] = recs[d] /\ drain' = drain /\ tidy' = tidy /\ sent' = sent /\ torn' = torn
          /\ \A b \in Threads : hs'[b].d = d => hs'[b] = hs[b]
      BY <2>6, <2>10, <2>11
    <3>2. Unused(d) => Unused(d)' BY <3>1 DEF Unused
    <3>3. Calm(d) => Calm(d)' BY <3>1 DEF Calm
    <3>4. Told(d) => Told(d)' BY <3>1 DEF Told
    <3> QED BY <3>2, <3>3, <3>4
  <2>12. Ids' = Ids BY DEF Ids
  <2> QED BY <2>2, <2>3, <2>5, <2>6, <2>8, <2>9, <2>10, <2>11, <2>12 DEF RecordInv, Sending, Unused
<1>2. CASE hs' = [hs EXCEPT ![a].pc = "send"] /\ UNCHANGED <<recs, order>>
  <2>1. hs'[a].d = 0 /\ \A b \in Threads : b # a => hs'[b] = hs[b] BY <1>0, <1>2 DEF TypeInv, Handlers
  <2> QED BY <1>0, <1>2, <2>1, Quiet DEF Enqueue
<1> QED BY <1>1, <1>2 DEF Enqueue

LEMMA SendKeeps ==
  ASSUME TypeInv, TypeInv', RecordInv, NEW a \in Threads, Send(a)
  PROVE  RecordInv'
<1>0. PICK k \in 0 .. MaxDeliveries : k = hs[a].d BY DEF TypeInv, Handlers
<1>1. /\ DOMAIN hs = Threads /\ DOMAIN hs' = Threads /\ 0 \notin Ids
      /\ hs[a].pc = "send" /\ UNCHANGED <<recs, drain, tidy, torn>> /\ Ids' = Ids
  BY DEF TypeInv, Ids, Send
<1>2. /\ hs'[a].pc \in {"told", "failed"} /\ hs'[a].d = k
      /\ \A b \in Threads : b # a => hs'[b] = hs[b]
      /\ hs'[a].pc = "told" /\ k \in Ids => sent'[k] = sent[k] + 1
      /\ hs'[a].pc = "failed" => sent' = sent
      /\ \A d \in Ids : d # k => sent'[d] = sent[d]
      /\ \A d \in Ids : sent[d] \in Nat
  BY <1>0 DEF Send, Reached, TypeInv, Handlers
<1>3. ASSUME NEW d \in Ids PROVE Held(d)' <=> Held(d)
  BY <1>0, <1>1, <1>2 DEF Held
<1>4. \A b \in Threads : hs'[b].pc \notin Sending => hs'[b].d = 0
  BY <1>2 DEF RecordInv, Sending
<1>5. ASSUME NEW d \in Ids, recs'[d].status = "none" PROVE Unused(d)'
  <2>1. Unused(d) BY <1>1, <1>5 DEF RecordInv
  <2>2. d # k BY <1>0, <1>1, <2>1 DEF Unused, Held
  <2> QED BY <1>1, <1>2, <1>3, <2>1, <2>2 DEF Unused
<1>6. ASSUME NEW d \in Ids \ torn PROVE Calm(d)'
  <2>1. Calm(d) BY DEF RecordInv
  <2>2. CASE d # k
    <3>1. \A b \in Threads : hs'[b].d = d => hs'[b] = hs[b] BY <1>2, <2>2
    <3> QED BY <1>1, <1>2, <1>3, <2>1, <2>2, <3>1 DEF Calm
  <2>3. CASE d = k
    <3>1. /\ recs[d].status = "queued" /\ sent[d] = 0 /\ Held(d)
          /\ ~recs[d].aged /\ d \notin drain.list /\ drain.d # d /\ d \notin tidy
          /\ \A b \in Threads : hs[b].d = d => b = a
      BY <1>0, <1>1, <2>1, <2>3 DEF Calm, Held
    <3>2. \A b \in Threads : hs'[b].d = d => b = a BY <1>2, <3>1
    <3>3. sent'[d] \in {0, 1} /\ (hs'[a].pc = "failed" => sent'[d] = 0) BY <1>2, <2>3, <3>1
    <3>4. Held(d)' BY <1>3, <3>1
    <3> QED BY <1>1, <1>2, <3>1, <3>2, <3>3, <3>4 DEF Calm
  <2> QED BY <2>2, <2>3
<1>7. ASSUME NEW d \in Ids PROVE Told(d)'
  <2>1. sent'[d] >= sent[d] BY <1>2
  <2> QED BY <1>1, <1>2, <2>1 DEF RecordInv, Told
<1> QED BY <1>1, <1>4, <1>5, <1>6, <1>7 DEF RecordInv

LEMMA FinishKeeps ==
  ASSUME TypeInv, TypeInv', RecordInv, NEW a \in Threads, Finish(a)
  PROVE  RecordInv' /\ (\A d \in Ids : recs'[d].status = "none" <=> recs[d].status = "none")
<1>0. PICK k \in 0 .. MaxDeliveries : k = hs[a].d BY DEF TypeInv, Handlers
<1>1. /\ DOMAIN hs = Threads /\ DOMAIN hs' = Threads /\ 0 \notin Ids
      /\ UNCHANGED <<drain, tidy, sent>> /\ Ids' = Ids
      /\ hs[a].pc \in {"told", "failed"} /\ hs'[a].d = 0
      /\ \A b \in Threads : b # a => hs'[b] = hs[b]
  BY IdleTyped DEF TypeInv, Ids, Finish
<1>2. PICK st \in {"delivered", "failed"} :
        Mark(k, st, FALSE) /\ (hs[a].pc = "told" <=> st = "delivered")
  BY <1>0 DEF Finish
<1>3. \/ /\ k \in Ids /\ torn' = torn
         /\ recs'[k].status = st /\ recs'[k].dup = FALSE
         /\ recs'[k].chan = recs[k].chan /\ recs'[k].text = recs[k].text
         /\ recs'[k].aged = recs[k].aged
         /\ \A e \in Ids : e # k => recs'[e] = recs[e]
      \/ recs' = recs /\ torn' = torn /\ k = 0
      \/ recs' = recs /\ torn' = torn \cup {k} /\ k \in Ids
  BY <1>2, MarkEffect
<1>4. \A d \in Ids : d # k => Held(d)' <=> Held(d)
  BY <1>0, <1>1 DEF Held
<1>5. k \in Ids => recs[k].status # "none" BY <1>0, <1>1 DEF RecordInv, Unused, Held
<1>6. \A d \in Ids : recs'[d].status = "none" <=> recs[d].status = "none" BY <1>3, <1>5
<1>7. ASSUME NEW d \in Ids, recs'[d].status = "none" PROVE Unused(d)'
  <2>1. Unused(d) /\ d # k BY <1>5, <1>6, <1>7 DEF RecordInv
  <2>2. torn' \subseteq torn \cup {k} BY <1>3
  <2> QED BY <1>1, <1>4, <2>1, <2>2 DEF Unused
<1>8. ASSUME NEW d \in Ids \ torn' PROVE Calm(d)'
  <2>1. Calm(d) BY <1>3 DEF RecordInv
  <2>2. CASE d # k
    <3>1. \A b \in Threads : hs'[b].d = d => hs'[b] = hs[b] BY <1>1
    <3>2. recs'[d] = recs[d] BY <1>3, <2>2
    <3> QED BY <1>1, <1>4, <2>1, <2>2, <3>1, <3>2 DEF Calm
  <2>3. CASE d = k
    <3>1. /\ d \notin drain.list /\ drain.d # d /\ d \notin tidy /\ sent[d] <= 1
          /\ hs[a].pc = "failed" => sent[d] = 0
          /\ \A b \in Threads : hs[b].d = d => b = a
      BY <1>0, <2>1, <2>3 DEF Calm
    <3>2. \A b \in Threads : hs'[b].d # d BY <1>1, <3>1
    <3>3. recs'[d].status = st BY <1>3, <1>8, <2>3, <1>1
    <3>4. st = "failed" => sent[d] = 0 BY <1>1, <1>2, <3>1
    <3> QED BY <1>1, <3>1, <3>2, <3>3, <3>4 DEF Calm
  <2> QED BY <2>2, <2>3
<1>9. ASSUME NEW d \in Ids PROVE Told(d)'
  <2>1. Told(d) BY DEF RecordInv
  <2>2. \A b \in Threads : hs'[b].d = d => hs'[b] = hs[b] BY <1>1
  <2>3. d = k /\ st = "delivered" => sent[d] > 0 BY <1>0, <1>1, <1>2, <2>1 DEF Told
  <2>4. recs'[d] = recs[d] \/ (d = k /\ recs'[d].status = st) BY <1>3
  <2> QED BY <1>1, <2>1, <2>2, <2>3, <2>4 DEF Told
<1>10. \A b \in Threads : hs'[b].pc \notin Sending => hs'[b].d = 0 BY <1>1 DEF RecordInv
<1> QED BY <1>1, <1>6, <1>7, <1>8, <1>9, <1>10 DEF RecordInv

LEMMA DrainSendKeeps ==
  ASSUME TypeInv, TypeInv', RecordInv, DrainSend
  PROVE  RecordInv'
<1>0. PICK k \in 0 .. MaxDeliveries : k = drain.d BY DEF TypeInv, Drains
<1>1. /\ 0 \notin Ids /\ drain.pc = "send" /\ UNCHANGED <<recs, hs, tidy, torn>> /\ Ids' = Ids
  BY DEF TypeInv, Ids, DrainSend
<1>2. /\ drain'.pc \in {"told", "failed"} /\ drain'.d = k /\ drain'.list = drain.list
      /\ drain'.pc = "told" /\ k \in Ids => sent'[k] = sent[k] + 1
      /\ drain'.pc = "failed" => sent' = sent
      /\ \A d \in Ids : d # k => sent'[d] = sent[d]
      /\ \A d \in Ids : sent[d] \in Nat
  BY <1>0 DEF DrainSend, Reached, TypeInv, Drains
<1>3. \A d \in Ids : Held(d)' <=> Held(d) BY <1>1 DEF Held
<1>5. ASSUME NEW d \in Ids, recs'[d].status = "none" PROVE Unused(d)'
  <2>1. Unused(d) BY <1>1, <1>5 DEF RecordInv
  <2>2. d # k BY <1>0, <2>1 DEF Unused
  <2> QED BY <1>1, <1>2, <1>3, <2>1, <2>2 DEF Unused
<1>6. ASSUME NEW d \in Ids \ torn PROVE Calm(d)'
  <2>1. Calm(d) BY DEF RecordInv
  <2>2. CASE d # k BY <1>0, <1>1, <1>2, <1>3, <2>1, <2>2 DEF Calm
  <2>3. CASE d = k
    <3>1. /\ recs[d].status = "queued" /\ recs[d].aged /\ recs[d].chan = "telegram" /\ sent[d] = 0
          /\ d \notin drain.list /\ d \notin tidy
          /\ \A b \in Threads : hs[b].d # d
      BY <1>0, <1>1, <2>1, <2>3 DEF Calm
    <3>2. sent'[d] \in {0, 1} /\ (drain'.pc = "failed" => sent'[d] = 0) BY <1>2, <2>3, <3>1
    <3> QED BY <1>1, <1>2, <2>3, <3>1, <3>2 DEF Calm
  <2> QED BY <2>2, <2>3
<1>7. ASSUME NEW d \in Ids PROVE Told(d)'
  <2>1. sent'[d] >= sent[d] BY <1>2
  <2> QED BY <1>1, <1>2, <2>1 DEF RecordInv, Told
<1> QED BY <1>1, <1>2, <1>5, <1>6, <1>7 DEF RecordInv

LEMMA DrainMarkKeeps ==
  ASSUME TypeInv, TypeInv', RecordInv, DrainMark
  PROVE  RecordInv' /\ (\A d \in Ids : recs'[d].status = "none" <=> recs[d].status = "none")
<1>0. PICK k \in 0 .. MaxDeliveries : k = drain.d BY DEF TypeInv, Drains
<1>1. /\ 0 \notin Ids /\ UNCHANGED <<hs, tidy, sent>> /\ Ids' = Ids
      /\ drain.pc \in {"told", "failed"}
      /\ drain'.d = 0 /\ drain'.pc = "idle" /\ drain'.list = drain.list
  BY DEF TypeInv, Drains, Ids, DrainMark
<1>2. PICK st \in {"delivered", "failed"} :
        Mark(k, st, FALSE) /\ (drain.pc = "told" <=> st = "delivered")
  BY <1>0 DEF DrainMark
<1>3. \/ /\ k \in Ids /\ torn' = torn
         /\ recs'[k].status = st /\ recs'[k].dup = FALSE
         /\ recs'[k].chan = recs[k].chan /\ recs'[k].text = recs[k].text
         /\ recs'[k].aged = recs[k].aged
         /\ \A e \in Ids : e # k => recs'[e] = recs[e]
      \/ recs' = recs /\ torn' = torn /\ k = 0
      \/ recs' = recs /\ torn' = torn \cup {k} /\ k \in Ids
  BY <1>2, MarkEffect
<1>4. \A d \in Ids : Held(d)' <=> Held(d) BY <1>1 DEF Held
<1>5. k \in Ids => recs[k].status # "none" BY <1>0, <1>1 DEF RecordInv, Unused
<1>6. \A d \in Ids : recs'[d].status = "none" <=> recs[d].status = "none" BY <1>3, <1>5
<1>7. ASSUME NEW d \in Ids, recs'[d].status = "none" PROVE Unused(d)'
  <2>1. Unused(d) /\ d # k BY <1>5, <1>6, <1>7 DEF RecordInv
  <2>2. torn' \subseteq torn \cup {k} BY <1>3
  <2> QED BY <1>1, <1>4, <2>1, <2>2 DEF Unused
<1>8. ASSUME NEW d \in Ids \ torn' PROVE Calm(d)'
  <2>1. Calm(d) BY <1>3 DEF RecordInv
  <2>2. CASE d # k
    <3>1. recs'[d] = recs[d] /\ drain.d # d BY <1>0, <1>3, <2>2
    <3> QED BY <1>1, <1>4, <2>1, <2>2, <3>1 DEF Calm
  <2>3. CASE d = k
    <3>1. /\ d \notin drain.list /\ d \notin tidy /\ sent[d] <= 1
          /\ drain.pc = "failed" => sent[d] = 0
          /\ \A b \in Threads : hs[b].d # d
      BY <1>0, <2>1, <2>3 DEF Calm
    <3>2. recs'[d].status = st BY <1>3, <1>8, <2>3, <1>1
    <3>3. st = "failed" => sent[d] = 0 BY <1>1, <1>2, <3>1
    <3>4. drain'.d # d BY <1>1
    <3> QED BY <1>1, <3>1, <3>2, <3>3, <3>4 DEF Calm
  <2> QED BY <2>2, <2>3
<1>9. ASSUME NEW d \in Ids PROVE Told(d)'
  <2>1. Told(d) BY DEF RecordInv
  <2>3. d = k /\ st = "delivered" => sent[d] > 0 BY <1>0, <1>1, <1>2, <2>1 DEF Told
  <2>4. recs'[d] = recs[d] \/ (d = k /\ recs'[d].status = st) BY <1>3
  <2> QED BY <1>1, <2>1, <2>3, <2>4 DEF Told
<1> QED BY <1>1, <1>6, <1>7, <1>8, <1>9 DEF RecordInv

LEMMA DrainListKeeps ==
  ASSUME TypeInv, TypeInv', RecordInv, DrainList
  PROVE  RecordInv'
<1>1. /\ 0 \notin Ids /\ UNCHANGED <<recs, hs, tidy, sent, torn>> /\ Ids' = Ids
      /\ drain.pc = "idle" /\ drain.d = 0
      /\ drain'.list = Waiting /\ drain'.d = 0 /\ drain'.pc = "idle"
  BY DEF DrainList, RecordInv, TypeInv, Drains, Ids
<1>2. \A d \in Ids : Held(d)' <=> Held(d) BY <1>1 DEF Held
<1>3. \A d \in Waiting : /\ recs[d].status = "queued" /\ recs[d].aged /\ recs[d].chan = "telegram"
                         /\ d \in Ids
  BY DEF Waiting, Listed, Made
<1>4. ASSUME NEW d \in Ids, recs[d].status = "none" PROVE Unused(d)'
  <2>1. Unused(d) /\ d \notin Waiting BY <1>3, <1>4 DEF RecordInv
  <2> QED BY <1>1, <1>2, <2>1 DEF Unused
<1>5. ASSUME NEW d \in Ids \ torn PROVE Calm(d)'
  <2>1. Calm(d) BY DEF RecordInv
  <2>2. DOMAIN hs = Threads BY DEF TypeInv
  <2>3. d \in Waiting => sent[d] = 0 /\ \A a \in Threads : hs[a].d # d
    <3>1. sent[d] \in Nat BY DEF TypeInv
    <3> QED BY <1>1, <1>3, <2>1, <2>2, <3>1 DEF Calm, Held
  <2> QED BY <1>1, <1>2, <1>3, <2>1, <2>3 DEF Calm
<1>6. ASSUME NEW d \in Ids PROVE Told(d)' BY <1>1 DEF RecordInv, Told
<1> QED BY <1>1, <1>4, <1>5, <1>6 DEF RecordInv

LEMMA DrainNextKeeps ==
  ASSUME TypeInv, TypeInv', RecordInv, NEW k \in Ids, DrainNext(k)
  PROVE  RecordInv' /\ (\A d \in Ids : recs'[d].status = "none" <=> recs[d].status = "none")
<1>0. \/ drain' = [list |-> drain.list \ {k}, d |-> k, pc |-> "send"] /\ UNCHANGED <<recs, torn>>
      \/ drain' = [drain EXCEPT !.list = @ \ {k}] /\ Mark(k, "delivered", TRUE)
  BY DEF DrainNext
<1>a. drain \in Drains BY DEF TypeInv
<1>b. drain.pc = "idle" /\ drain.d = 0 /\ k \in drain.list BY DEF DrainNext, RecordInv
<1>c. \/ drain'.list = drain.list \ {k} /\ drain'.d = k /\ drain'.pc = "send" /\ UNCHANGED <<recs, torn>>
      \/ drain'.list = drain.list \ {k} /\ drain'.d = 0 /\ drain'.pc = "idle" /\ Mark(k, "delivered", TRUE)
  <2> DEFINE l == drain.list \ {k}
  <2>1. \/ drain' = [list |-> l, d |-> k, pc |-> "send"] /\ UNCHANGED <<recs, torn>>
        \/ drain' = [drain EXCEPT !.list = l] /\ Mark(k, "delivered", TRUE)
    BY <1>0
  <2> HIDE DEF l
  <2>2. CASE drain' = [list |-> l, d |-> k, pc |-> "send"] /\ UNCHANGED <<recs, torn>>
    BY <2>2 DEF l
  <2>3. CASE drain' = [drain EXCEPT !.list = l] /\ Mark(k, "delivered", TRUE)
    <3>1. drain'.list = l /\ drain'.d = 0 /\ drain'.pc = "idle" BY <1>a, <1>b, <2>3 DEF Drains
    <3> QED BY <2>3, <3>1 DEF l
  <2> QED BY <2>1, <2>2, <2>3
<1>1. /\ 0 \notin Ids /\ UNCHANGED <<hs, tidy, sent>> /\ Ids' = Ids
      /\ drain.pc = "idle" /\ drain.d = 0 /\ k \in drain.list
      /\ drain'.list = drain.list \ {k}
  <2>1. UNCHANGED <<hs, tidy, sent>> BY DEF DrainNext
  <2>2. 0 \notin Ids /\ Ids' = Ids BY ChannelAssumption DEF Ids
  <2>3. drain'.list = drain.list \ {k} BY <1>c
  <2> QED BY <1>b, <2>1, <2>2, <2>3
<1>2. \A d \in Ids : Held(d)' <=> Held(d) BY <1>1 DEF Held
<1>3. recs[k].status # "none" BY <1>1 DEF RecordInv, Unused
<1>4. CASE drain'.d = k /\ drain'.pc = "send" /\ UNCHANGED <<recs, torn>>
  <2>1. ASSUME NEW d \in Ids, recs[d].status = "none" PROVE Unused(d)'
    BY <1>1, <1>2, <1>3, <1>4, <2>1 DEF RecordInv, Unused
  <2>2. ASSUME NEW d \in Ids \ torn PROVE Calm(d)'
    <3>1. Calm(d) BY DEF RecordInv
    <3> QED BY <1>1, <1>2, <1>4, <3>1 DEF Calm
  <2>3. ASSUME NEW d \in Ids PROVE Told(d)' BY <1>1, <1>4 DEF RecordInv, Told
  <2> QED BY <1>1, <1>4, <2>1, <2>2, <2>3 DEF RecordInv
<1>5. CASE drain'.d = 0 /\ drain'.pc = "idle" /\ Mark(k, "delivered", TRUE)
  <2>0. k \in 0 .. MaxDeliveries /\ k # 0 BY ChannelAssumption DEF Ids
  <2>1. \/ /\ torn' = torn /\ recs'[k].status = "delivered" /\ recs'[k].dup = TRUE
           /\ recs'[k].chan = recs[k].chan /\ recs'[k].aged = recs[k].aged
           /\ \A e \in Ids : e # k => recs'[e] = recs[e]
        \/ recs' = recs /\ torn' = torn \cup {k}
    BY <1>5, <2>0, MarkEffect
  <2>2. \A d \in Ids : recs'[d].status = "none" <=> recs[d].status = "none" BY <1>3, <2>1
  <2>3. ASSUME NEW d \in Ids, recs'[d].status = "none" PROVE Unused(d)'
    <3>1. Unused(d) /\ d # k BY <1>3, <2>2, <2>3 DEF RecordInv
    <3>2. torn' \subseteq torn \cup {k} BY <2>1
    <3> QED BY <1>1, <1>2, <1>5, <3>1, <3>2 DEF Unused
  <2>4. ASSUME NEW d \in Ids \ torn' PROVE Calm(d)'
    <3>1. Calm(d) BY <2>1 DEF RecordInv
    <3>2. CASE d # k
      <4>1. recs'[d] = recs[d] BY <2>1, <3>2
      <4> QED BY <1>1, <1>2, <1>5, <3>1, <3>2, <4>1 DEF Calm
    <3>3. CASE d = k
      <4>1. /\ d \notin tidy /\ sent[d] = 0 /\ \A b \in Threads : hs[b].d # d
        BY <1>1, <3>1, <3>3 DEF Calm
      <4>2. recs'[d].status = "delivered" BY <2>1, <2>4, <3>3
      <4> QED BY <1>1, <1>5, <3>3, <4>1, <4>2 DEF Calm
    <3> QED BY <3>2, <3>3
  <2>5. ASSUME NEW d \in Ids PROVE Told(d)'
    <3>1. Told(d) BY DEF RecordInv
    <3>2. recs'[d] = recs[d] \/ recs'[d].dup = TRUE BY <2>1
    <3> QED BY <1>1, <1>5, <3>1, <3>2 DEF Told
  <2> QED BY <1>1, <1>5, <2>2, <2>3, <2>4, <2>5 DEF RecordInv
<1> QED BY <1>c, <1>4, <1>5

LEMMA TidyListKeeps ==
  ASSUME TypeInv, TypeInv', RecordInv, TidyList
  PROVE  RecordInv'
<1>1. /\ UNCHANGED <<recs, hs, drain, sent, torn>> /\ Ids' = Ids
      /\ \A d \in tidy' : recs[d].chan = "web_api" /\ recs[d].status = "queued" /\ recs[d].aged
  BY DEF TidyList, Ids
<1>2. \A d \in Ids : Held(d)' <=> Held(d) BY <1>1 DEF Held
<1>3. ASSUME NEW d \in Ids, recs[d].status = "none" PROVE Unused(d)'
  <2>1. Unused(d) /\ d \notin tidy' BY <1>1, <1>3 DEF RecordInv
  <2> QED BY <1>1, <1>2, <2>1 DEF Unused
<1>4. ASSUME NEW d \in Ids \ torn PROVE Calm(d)'
  <2>1. Calm(d) /\ DOMAIN hs = Threads BY DEF RecordInv, TypeInv
  <2>2. d \notin tidy' BY <1>1, <2>1 DEF Calm, Held
  <2> QED BY <1>1, <1>2, <2>1, <2>2 DEF Calm
<1>5. ASSUME NEW d \in Ids PROVE Told(d)' BY <1>1 DEF RecordInv, Told
<1> QED BY <1>1, <1>3, <1>4, <1>5 DEF RecordInv

LEMMA TidyMarkKeeps ==
  ASSUME TypeInv, TypeInv', RecordInv, NEW k \in Ids, TidyMark(k)
  PROVE  RecordInv' /\ (\A d \in Ids : recs'[d].status = "none" <=> recs[d].status = "none")
<1>1. /\ UNCHANGED <<hs, drain, sent>> /\ Ids' = Ids /\ k \in tidy /\ tidy' = tidy \ {k}
      /\ Mark(k, "failed", FALSE)
  BY DEF TidyMark, Ids
<1>a. k \in 0 .. MaxDeliveries /\ k # 0 BY ChannelAssumption DEF Ids
<1>2. \A d \in Ids : Held(d)' <=> Held(d) BY <1>1 DEF Held
<1>3. recs[k].status # "none" /\ k \in torn BY <1>1 DEF RecordInv, Unused, Calm
<1>4. /\ torn' = torn
      /\ recs'[k] = recs[k] \/ recs'[k].status = "failed"
      /\ \A e \in Ids : e # k => recs'[e] = recs[e]
  BY <1>1, <1>a, <1>3, MarkEffect
<1>5. \A d \in Ids : recs'[d].status = "none" <=> recs[d].status = "none" BY <1>3, <1>4
<1>6. ASSUME NEW d \in Ids, recs'[d].status = "none" PROVE Unused(d)'
  BY <1>1, <1>2, <1>4, <1>5, <1>6 DEF RecordInv, Unused
<1>7. ASSUME NEW d \in Ids \ torn' PROVE Calm(d)'
  <2>1. Calm(d) /\ recs'[d] = recs[d] BY <1>3, <1>4 DEF RecordInv
  <2> QED BY <1>1, <1>2, <2>1 DEF Calm
<1>8. ASSUME NEW d \in Ids PROVE Told(d)'
  <2>1. recs'[d] = recs[d] \/ recs'[d].status = "failed" BY <1>4
  <2> QED BY <1>1, <2>1 DEF RecordInv, Told
<1> QED BY <1>1, <1>4, <1>5, <1>6, <1>7, <1>8 DEF RecordInv

LEMMA CrashKeeps ==
  ASSUME TypeInv, TypeInv', RecordInv, Crash
  PROVE  RecordInv'
<1>1. /\ UNCHANGED <<recs, sent>> /\ Ids' = Ids /\ 0 \notin Ids
      /\ \A a \in Threads : hs'[a].d = 0
      /\ drain'.d = 0 /\ drain'.list = {} /\ tidy' = {}
      /\ torn' = torn \cup {d \in Ids : Held(d) \/ drain.d = d}
      /\ DOMAIN hs' = Threads
  BY IdleTyped DEF Crash, TypeInv, Ids
<1>2. \A d \in Ids : ~Held(d)' BY <1>1 DEF Held
<1>3. ASSUME NEW d \in Ids, recs[d].status = "none" PROVE Unused(d)'
  BY <1>1, <1>2, <1>3 DEF RecordInv, Unused
<1>4. ASSUME NEW d \in Ids \ torn' PROVE Calm(d)'
  <2>1. Calm(d) /\ ~Held(d) /\ drain.d # d BY <1>1 DEF RecordInv
  <2> QED BY <1>1, <1>2, <2>1 DEF Calm
<1>5. ASSUME NEW d \in Ids PROVE Told(d)' BY <1>1 DEF RecordInv, Told
<1> QED BY <1>1, <1>3, <1>4, <1>5 DEF RecordInv

LEMMA AgeKeeps ==
  ASSUME TypeInv, TypeInv', RecordInv, NEW k \in Ids, Age(k)
  PROVE  RecordInv' /\ (\A d \in Ids : recs'[d].status = "none" <=> recs[d].status = "none")
<1>1. /\ UNCHANGED <<hs, drain, sent, tidy>> /\ Ids' = Ids
      /\ recs[k].status = "queued" /\ ~recs[k].aged
      /\ recs'[k].status = "queued" /\ recs'[k].aged /\ recs'[k].chan = recs[k].chan
      /\ recs'[k].dup = recs[k].dup
      /\ \A e \in Ids : e # k => recs'[e] = recs[e]
      /\ torn' = IF Held(k) THEN torn \cup {k} ELSE torn
      /\ DOMAIN hs = Threads
  BY DEF Age, Ids, TypeInv, Records
<1>2. \A d \in Ids : Held(d)' <=> Held(d) BY <1>1 DEF Held
<1>3. ASSUME NEW d \in Ids, recs'[d].status = "none" PROVE Unused(d)'
  <2>1. Unused(d) /\ d # k BY <1>1, <1>3 DEF RecordInv
  <2> QED BY <1>1, <1>2, <2>1 DEF Unused
<1>4. ASSUME NEW d \in Ids \ torn' PROVE Calm(d)'
  <2>1. Calm(d) /\ (d = k => ~Held(d)) BY <1>1 DEF RecordInv
  <2>2. d = k => \A a \in Threads : hs[a].d # d BY <1>1, <2>1 DEF Held
  <2> QED BY <1>1, <1>2, <2>1, <2>2 DEF Calm
<1>5. ASSUME NEW d \in Ids PROVE Told(d)'
  <2>1. recs'[d].status = recs[d].status /\ recs'[d].dup = recs[d].dup BY <1>1
  <2> QED BY <1>1, <2>1 DEF RecordInv, Told
<1>6. \A d \in Ids : recs'[d].status = "none" <=> recs[d].status = "none" BY <1>1
<1> QED BY <1>1, <1>3, <1>4, <1>5, <1>6 DEF RecordInv

LEMMA ForgetKeeps ==
  ASSUME TypeInv, TypeInv', RecordInv, NEW k \in Ids, Forget(k)
  PROVE  RecordInv' /\ (\A d \in Ids : recs'[d].status = "none" <=> recs[d].status = "none")
<1>1. /\ UNCHANGED <<hs, drain, sent, tidy, torn>> /\ Ids' = Ids
      /\ \A d \in Ids : /\ recs'[d].status = recs[d].status /\ recs'[d].aged = recs[d].aged
                        /\ recs'[d].chan = recs[d].chan /\ recs'[d].dup = recs[d].dup
  BY DEF Forget, Ids, TypeInv, Records
<1>2. \A d \in Ids : Held(d)' <=> Held(d) BY <1>1 DEF Held
<1>3. \A d \in Ids : Unused(d) => Unused(d)' BY <1>1, <1>2 DEF Unused
<1>4. \A d \in Ids : Calm(d) => Calm(d)' BY <1>1, <1>2 DEF Calm
<1>5. \A d \in Ids : Told(d) => Told(d)' BY <1>1 DEF Told
<1> QED BY <1>1, <1>3, <1>4, <1>5 DEF RecordInv

LEMMA SameNumbers ==
  ASSUME Numbered, \A d \in Ids : recs'[d].status = "none" <=> recs[d].status = "none"
  PROVE  Numbered' /\ Made' = Made
BY DEF Numbered, Made, Ids

\* A queued record takes the next number.
LEMMA QueueNumbers ==
  ASSUME TypeInv, Numbered, NEW chan \in {"telegram", "web_api"}, NEW x \in AnyText, Queue(chan, x)
  PROVE  Numbered' /\ Made' = Made \cup {Fresh}
<1>1. Fresh \in Ids BY QueueTyped
<1>2. PICK k \in Ids : k = Fresh BY <1>1
<1>3. \A d \in Ids : d # k => recs'[d] = recs[d] BY <1>2, QueueTyped
<1>4. recs'[k].status = "queued" BY <1>2, QueueTyped
<1>5. PICK n \in 0 .. MaxDeliveries : Made = 1 .. n BY DEF Numbered
<1>6. Cardinality(Made) = n BY <1>5, FS_Interval
<1>7. k = n + 1 /\ k \in 0 .. MaxDeliveries BY <1>2, <1>6, ChannelAssumption DEF Fresh, Ids
<1>8. Ids' = Ids BY DEF Ids
<1>9. Made' = Made \cup {k} BY <1>3, <1>4, <1>8 DEF Made
<1>10. Made' = 1 .. k BY <1>5, <1>7, <1>9
<1> QED BY <1>2, <1>7, <1>9, <1>10 DEF Numbered

\* A record that no thread of the gateway holds: a brief's, or another program's.
LEMMA QueueKeeps ==
  ASSUME TypeInv, TypeInv', RecordInv, Numbered, NEW x \in AnyText, Queue("telegram", x),
         UNCHANGED <<hs, drain, tidy, sent, torn>>
  PROVE  RecordInv' /\ Numbered'
<1>1. Ids' = Ids BY DEF Ids
<1>2. Fresh \in Ids BY <1>1, QueueTyped
<1>3. PICK n \in Ids : n = Fresh BY <1>2
<1>4. /\ \A d \in Ids : d # n => recs'[d] = recs[d]
      /\ recs'[n].chan = "telegram" /\ recs'[n].status = "queued"
      /\ recs'[n].aged = FALSE /\ recs'[n].dup = FALSE
  BY <1>1, <1>3, QueueTyped
<1>5. recs[n].status = "none" BY <1>3, FreshUnused
<1>6. \A d \in Ids : Held(d)' <=> Held(d) BY <1>1 DEF Held
<1>7. Unused(n) /\ DOMAIN hs = Threads BY <1>5 DEF RecordInv, TypeInv
<1>8. ASSUME NEW d \in Ids, recs'[d].status = "none" PROVE Unused(d)'
  BY <1>1, <1>4, <1>6, <1>8 DEF RecordInv, Unused
<1>9. ASSUME NEW d \in Ids \ torn' PROVE Calm(d)'
  <2>1. CASE d # n
    <3>1. Calm(d) /\ recs'[d] = recs[d] BY <1>1, <1>4, <2>1 DEF RecordInv
    <3> QED BY <1>1, <1>6, <3>1 DEF Calm
  <2>2. CASE d = n
    <3>1. \A a \in Threads : hs[a].d # d BY <1>7, <2>2 DEF Unused, Held
    <3> QED BY <1>1, <1>4, <1>7, <2>2, <3>1 DEF Calm, Unused
  <2> QED BY <2>1, <2>2
<1>10. ASSUME NEW d \in Ids PROVE Told(d)'
  <2>1. recs'[d] = recs[d] \/ recs'[d].status = "queued" BY <1>4
  <2> QED BY <1>1, <2>1 DEF RecordInv, Told
<1> QED BY <1>1, <1>8, <1>9, <1>10, QueueNumbers DEF RecordInv

---------------------------------------------------------------------------
LEMMA RecordUnchanged ==
  ASSUME RecordInv, Numbered, UNCHANGED <<recs, hs, drain, tidy, sent, torn>>
  PROVE  RecordInv' /\ Numbered'
<1>1. Ids' = Ids BY DEF Ids
<1>2. \A d \in Ids : Held(d)' <=> Held(d) BY DEF Held
<1>3. \A d \in Ids : Unused(d) => Unused(d)' BY <1>2 DEF Unused
<1>4. \A d \in Ids : Calm(d) => Calm(d)' BY <1>2 DEF Calm
<1>5. \A d \in Ids : Told(d) => Told(d)' BY DEF Told
<1>6. Numbered' BY <1>1 DEF Numbered, Made
<1> QED BY <1>1, <1>3, <1>4, <1>5, <1>6 DEF RecordInv

LEMMA RecordStep ==
  ASSUME TypeInv, TypeInv', RecordInv, Numbered, [Next]_vars
  PROVE  RecordInv' /\ Numbered'
<1>0. DOMAIN hs = Threads BY DEF TypeInv
<1>1. ASSUME NEW m \in Msgs, Receive(m) PROVE RecordInv' /\ Numbered'
  <2>1. CASE UNCHANGED hs BY <1>1, <2>1, RecordUnchanged DEF Receive
  <2>2. CASE hs' = [hs EXCEPT !["poll"] = [Idle EXCEPT !.pc = "route", !.msg = m]]
    <3>1. [Idle EXCEPT !.pc = "route", !.msg = m].d = 0 BY DEF Idle
    <3>2. hs["poll"].d = 0 /\ "poll" \in Threads BY <1>1 DEF Receive, RecordInv, Sending, Threads
    <3>3. hs'["poll"].d = 0 /\ \A b \in Threads : b # "poll" => hs'[b] = hs[b]
      BY <2>2, <3>1, <3>2 DEF TypeInv
    <3>4. UNCHANGED <<recs, drain, tidy, sent, torn>> BY <1>1 DEF Receive
    <3>5. RecordInv' BY <3>2, <3>3, <3>4, Quiet
    <3>6. Numbered' BY <3>4, SameNumbers
    <3> QED BY <3>5, <3>6
  <2> QED BY <1>1, <2>1, <2>2 DEF Receive
<1>2. ASSUME NEW m \in Msgs, Lapse(m) PROVE RecordInv' /\ Numbered'
  BY <1>2, RecordUnchanged DEF Lapse
<1>3. CASE Poll BY <1>3, RecordUnchanged DEF Poll
<1>4. ASSUME NEW a \in Threads, Answer(a) PROVE RecordInv' /\ Numbered'
  <2>1. hs[a].d = 0 BY <1>4 DEF Answer, RecordInv, Sending
  <2>2. hs'[a].d = 0 /\ \A b \in Threads : b # a => hs'[b] = hs[b]
    <3>1. CASE hs' = [hs EXCEPT ![a] = Idle] BY <3>1, IdleTyped DEF TypeInv
    <3>2. ASSUME NEW x \in Texts, hs' = [hs EXCEPT ![a].text = x,
                                        ![a].pc = IF a = "web" THEN "queue" ELSE "check"]
          PROVE  hs'[a].d = 0 /\ \A b \in Threads : b # a => hs'[b] = hs[b]
      <4>1. hs[a] \in Handlers BY DEF TypeInv
      <4>2. hs'[a].d = hs[a].d /\ \A b \in Threads : b # a => hs'[b] = hs[b]
        BY <3>2, <4>1 DEF TypeInv, Handlers
      <4> QED BY <2>1, <4>2
    <3> QED BY <1>4, <3>1, <3>2 DEF Answer
  <2>3. UNCHANGED <<recs, drain, tidy, sent, torn>> BY <1>4 DEF Answer
  <2> QED BY <2>1, <2>2, <2>3, Quiet, SameNumbers
<1>5. ASSUME NEW a \in Threads, Check(a) PROVE RecordInv' /\ Numbered'
  <2>1. hs[a].d = 0 BY <1>5 DEF Check, RecordInv, Sending
  <2>2. hs'[a].d = 0 /\ \A b \in Threads : b # a => hs'[b] = hs[b]
    BY <1>5, <2>1, IdleTyped DEF Check, TypeInv, Handlers
  <2>3. UNCHANGED <<recs, drain, tidy, sent, torn>> BY <1>5 DEF Check
  <2> QED BY <2>1, <2>2, <2>3, Quiet, SameNumbers
<1>6. ASSUME NEW a \in Threads, Enqueue(a) PROVE RecordInv' /\ Numbered'
  <2>1. RecordInv' BY <1>6, EnqueueKeeps
  <2>2. hs[a].text \in AnyText BY DEF TypeInv, Handlers, AnyText
  <2>3. Numbered' BY <1>6, <2>2, QueueNumbers, SameNumbers DEF Enqueue
  <2> QED BY <2>1, <2>3
<1>7. ASSUME NEW a \in Threads, Send(a) PROVE RecordInv' /\ Numbered'
  BY <1>7, SendKeeps, SameNumbers DEF Send
<1>8. ASSUME NEW a \in Threads, Finish(a) PROVE RecordInv' /\ Numbered'
  BY <1>8, FinishKeeps, SameNumbers
<1>9. CASE DrainList BY <1>9, DrainListKeeps, SameNumbers DEF DrainList
<1>10. CASE DrainSend BY <1>10, DrainSendKeeps, SameNumbers DEF DrainSend
<1>11. CASE DrainMark BY <1>11, DrainMarkKeeps, SameNumbers
<1>12. CASE TidyList BY <1>12, TidyListKeeps, SameNumbers DEF TidyList
<1>13. CASE Crash BY <1>13, CrashKeeps, SameNumbers DEF Crash
<1>14. ASSUME NEW d \in Ids, DrainNext(d) PROVE RecordInv' /\ Numbered'
  BY <1>14, DrainNextKeeps, SameNumbers
<1>15. ASSUME NEW d \in Ids, TidyMark(d) PROVE RecordInv' /\ Numbered'
  BY <1>15, TidyMarkKeeps, SameNumbers
<1>16. ASSUME NEW d \in Ids, Age(d) PROVE RecordInv' /\ Numbered'
  BY <1>16, AgeKeeps, SameNumbers
<1>17. ASSUME NEW d \in Ids, Forget(d) PROVE RecordInv' /\ Numbered'
  BY <1>17, ForgetKeeps, SameNumbers
<1>18. ASSUME NEW r \in Runs, QueueBrief(r) PROVE RecordInv' /\ Numbered'
  <2>1. PICK x \in AnyText : x = js[r].text BY DEF TypeInv, Processes
  <2> QED BY <1>18, <2>1, QueueKeeps DEF QueueBrief
<1>19. ASSUME NEW r \in Runs, Job(r), ~QueueBrief(r) PROVE RecordInv' /\ Numbered'
  <2>1. UNCHANGED chvars
    BY <1>19 DEF Job, Kickoff, Research, StartWrite, FinishWrite, StartQa, FinishQa, StartDeliver,
                 Offer, Handoff
  <2> QED BY <2>1, RecordUnchanged DEF chvars
<1>20. CASE UNCHANGED vars BY <1>20, RecordUnchanged DEF vars, chvars
<1>21. CASE Foreign
  <2>1. PICK x \in AnyText : Queue("telegram", x) BY <1>21 DEF Foreign, AnyText
  <2> QED BY <1>21, <2>1, QueueKeeps DEF Foreign
<1> QED BY <1>0, <1>1, <1>2, <1>3, <1>4, <1>5, <1>6, <1>7, <1>8, <1>9, <1>10, <1>11, <1>12,
           <1>13, <1>14, <1>15, <1>16, <1>17, <1>18, <1>19, <1>20, <1>21 DEF Next, ChNext

LEMMA InitRecords == Init => RecordInv /\ Numbered
<1> SUFFICES ASSUME Init PROVE RecordInv /\ Numbered OBVIOUS
<1>1. /\ \A d \in Ids : /\ recs[d] = NoRecord /\ sent[d] = 0
      /\ hs = [a \in Threads |-> Idle] /\ drain.list = {} /\ drain.d = 0 /\ drain.pc = "idle"
      /\ torn = {} /\ tidy = {} /\ 0 \notin Ids
  BY ChannelAssumption DEF Init, ChInit, Threads, Ids
<1>2. NoRecord.status = "none" BY DEF NoRecord
<1>3. \A d \in Ids : ~Held(d) BY <1>1, IdleTyped DEF Held
<1>4. Made = {} BY <1>1, <1>2 DEF Made
<1>5. Made = 1 .. 0 /\ 0 \in 0 .. MaxDeliveries BY <1>4, ChannelAssumption
<1>6. \A d \in Ids : Unused(d) /\ Calm(d) /\ Told(d)
  BY <1>1, <1>2, <1>3, IdleTyped DEF Unused, Calm, Told
<1> QED BY <1>1, <1>5, <1>6, IdleTyped DEF RecordInv, Numbered

LEMMA RecordsKept == Spec => [](TypeInv /\ RecordInv /\ Numbered)
<1>1. Init => TypeInv /\ RecordInv /\ Numbered BY InitTyped, InitRecords
<1>2. TypeInv /\ RecordInv /\ Numbered /\ [Next]_vars => (TypeInv /\ RecordInv /\ Numbered)'
  <2>1. TypeInv /\ [Next]_vars => TypeInv' BY NextTyped
  <2> QED BY <2>1, RecordStep
<1> QED BY <1>1, <1>2, PTL DEF Spec

\* The marks of the senders, the drain and the tidying never contradict what happened to a
\* delivery, whoever of them marks it.
THEOREM MarksTellTheTruth == Spec => []MarkedTruly
<1>1. TypeInv /\ RecordInv => MarkedTruly
  <2> SUFFICES ASSUME TypeInv, RecordInv, NEW d \in Made
               PROVE  /\ recs[d].status = "delivered" /\ ~recs[d].dup => sent[d] > 0
                      /\ recs[d].status = "failed" /\ d \notin torn => sent[d] = 0
    BY DEF MarkedTruly
  <2>1. d \in Ids /\ Told(d) /\ (d \notin torn => Calm(d)) BY DEF Made, RecordInv
  <2> QED BY <2>1 DEF Told, Calm
<1> QED BY <1>1, RecordsKept, PTL

\* The thread that queued a delivery and the drain do not both send it, as long as its sender is
\* faster than the drain, its mark is kept and it lives.
THEOREM NothingSentTwice == Spec => []SentOnce
<1>1. TypeInv /\ RecordInv => SentOnce
  <2> SUFFICES ASSUME TypeInv, RecordInv, NEW d \in Ids, d \notin torn PROVE ~(sent[d] > 1)
    BY DEF SentOnce
  <2>1. Calm(d) /\ sent[d] \in Nat BY DEF RecordInv, TypeInv
  <2> QED BY <2>1 DEF Calm
<1> QED BY <1>1, RecordsKept, PTL

---------------------------------------------------------------------------
(***************************************************************************)
(* The night shift                                                         *)
(***************************************************************************)
LEMMA BriefsDiffer ==
  /\ \A v : Brief(v) # NoText /\ Brief(v) # NoBrief
  /\ \A v, w : Brief(v) = Brief(w) => v = w
BY DEF Brief, NoText, NoBrief

\* What the jobs do to the processes: one starts, one stops, or one goes on.
LEMMA JobProcesses ==
  ASSUME TypeInv, NEW r \in Runs, Job(r)
  PROVE  /\ \A q \in Runs : q # r => js'[q] = js[q]
         /\ \/ js' = js /\ apart' = apart
            \/ js'[r] = Rest /\ apart' = apart
            \/ js'[r].job \in {"write", "qa"} /\ apart' = (apart /\ \A q \in Runs : js[q] = Rest)
            \/ /\ StartDeliver(r) /\ js'[r].job = "deliver" /\ js'[r].v = brief
               /\ js'[r].text = (IF brief # 0 /\ verdict = "accept" THEN Brief(brief) ELSE NoBrief)
               /\ (js'[r].match <=> brief = judged)
               /\ apart' = (apart /\ \A q \in Runs : js[q] = Rest)
            \/ /\ \/ /\ Offer(r) /\ js[r].job = "deliver" /\ js'[r].job = "queue"
                     /\ ~Known(js[r].text)
                  \/ QueueBrief(r) /\ js[r].job = "queue" /\ js'[r].job = "wait"
               /\ js'[r].v = js[r].v /\ js'[r].text = js[r].text /\ js'[r].match = js[r].match
               /\ apart' = apart
<1>0. js[r] \in Processes /\ js \in [Runs -> Processes] /\ brief \in 0 .. MaxBriefs
  BY DEF TypeInv
<1>1. CASE Kickoff(r) BY <1>1 DEF Kickoff, Once
<1>2. CASE Research(r) BY <1>2 DEF Research, Once
<1>3. CASE StartWrite(r)
  <2>1. drafts + 1 \in 0 .. MaxBriefs BY <1>3, NightShiftAssumption DEF StartWrite, TypeInv
  <2>2. NoText \in AnyText /\ Start(r, "write", drafts + 1, NoText) BY <1>3 DEF StartWrite, AnyText
  <2>3. PICK p \in Processes : js' = [js EXCEPT ![r] = p] /\ p.job = "write"
    BY <2>1, <2>2, StartTyped
  <2> QED BY <1>0, <2>2, <2>3 DEF Start
<1>4. CASE FinishWrite(r) BY <1>0, <1>4 DEF FinishWrite, Stop
<1>5. CASE StartQa(r)
  <2>1. NoText \in AnyText /\ Start(r, "qa", brief, NoText) BY <1>5 DEF StartQa, AnyText
  <2>2. PICK p \in Processes : js' = [js EXCEPT ![r] = p] /\ p.job = "qa"
    BY <1>0, <2>1, StartTyped
  <2> QED BY <1>0, <2>1, <2>2 DEF Start
<1>6. CASE FinishQa(r) BY <1>0, <1>6 DEF FinishQa, Stop
<1>7. CASE StartDeliver(r)
  <2> DEFINE x == IF brief # 0 /\ verdict = "accept" THEN Brief(brief) ELSE NoBrief
  <2>1. x \in AnyText BY <1>0 DEF AnyText
  <2>2. Start(r, "deliver", brief, x) BY <1>7 DEF StartDeliver
  <2> HIDE DEF x
  <2>3. PICK p \in Processes : /\ js' = [js EXCEPT ![r] = p] /\ p.job = "deliver" /\ p.v = brief
                               /\ p.text = x /\ (p.match <=> brief = judged)
    BY <1>0, <2>1, <2>2, StartTyped
  <2>4. /\ js'[r].job = "deliver" /\ js'[r].v = brief
        /\ js'[r].text = x /\ (js'[r].match <=> brief = judged)
        /\ \A q \in Runs : q # r => js'[q] = js[q]
    BY <1>0, <2>3
  <2> QED BY <1>7, <2>2, <2>4 DEF Start, x
<1>8. CASE Offer(r)
  <2>1. CASE Stop(r) BY <1>0, <2>1 DEF Stop
  <2>2. CASE /\ ~Known(js[r].text) /\ js' = [js EXCEPT ![r].job = "queue"] /\ UNCHANGED apart
    <3>1. /\ js'[r].job = "queue" /\ js'[r].v = js[r].v /\ js'[r].text = js[r].text
          /\ js'[r].match = js[r].match /\ \A q \in Runs : q # r => js'[q] = js[q]
      BY <1>0, <2>2 DEF Processes
    <3> QED BY <1>8, <2>2, <3>1 DEF Offer
  <2> QED BY <1>8, <2>1, <2>2 DEF Offer
<1>9. CASE QueueBrief(r)
  <2> DEFINE n == Fresh
  <2>1. js' = [js EXCEPT ![r].job = "wait", ![r].d = n] BY <1>9 DEF QueueBrief
  <2> HIDE DEF n
  <2>2. /\ js'[r].job = "wait" /\ js'[r].v = js[r].v /\ js'[r].text = js[r].text
        /\ js'[r].match = js[r].match /\ \A q \in Runs : q # r => js'[q] = js[q]
    BY <1>0, <2>1 DEF Processes
  <2> QED BY <1>9, <2>2 DEF QueueBrief
<1>10. CASE Handoff(r) BY <1>0, <1>10 DEF Handoff, Stop
<1> QED BY <1>1, <1>2, <1>3, <1>4, <1>5, <1>6, <1>7, <1>8, <1>9, <1>10 DEF Job

LEMMA QaStep == TypeInv /\ QaInv /\ [Next]_vars => QaInv'
<1> SUFFICES ASSUME TypeInv, QaInv, [Next]_vars PROVE QaInv' OBVIOUS
<1>1. CASE UNCHANGED nsvars BY <1>1 DEF nsvars, QaInv
<1>2. ASSUME NEW r \in Runs, Job(r) PROVE QaInv'
  <2>1. /\ verdict' = "accept" => judged' \in accepted'
        /\ accepted \subseteq accepted'
    BY <1>2 DEF Job, Kickoff, Research, StartWrite, FinishWrite, StartQa, FinishQa, StartDeliver,
                Offer, QueueBrief, Handoff, QaInv
  <2>2. ASSUME NEW q \in Runs, js'[q].job \in {"deliver", "queue", "wait"},
               js'[q].text = Brief(js'[q].v), js'[q].match
        PROVE  js'[q].v \in accepted'
    <3>1. CASE q # r \/ js' = js BY <1>2, <2>1, <2>2, <3>1, JobProcesses DEF QaInv
    <3>2. CASE q = r /\ StartDeliver(r) /\ js'[r].v = brief
               /\ js'[r].text = (IF brief # 0 /\ verdict = "accept" THEN Brief(brief) ELSE NoBrief)
               /\ (js'[r].match <=> brief = judged)
      <4>1. verdict = "accept" /\ brief = judged BY <2>2, <3>2, BriefsDiffer
      <4> QED BY <2>1, <3>2, <4>1 DEF QaInv
    <3>3. CASE q = r /\ js[r].job \in {"deliver", "queue"} /\ js'[r].v = js[r].v
               /\ js'[r].text = js[r].text /\ js'[r].match = js[r].match
      BY <2>1, <2>2, <3>3 DEF QaInv
    <3> QED BY <1>2, <2>2, <3>1, <3>2, <3>3, JobProcesses, RestTyped
  <2> QED BY <2>1, <2>2 DEF QaInv
<1> QED BY <1>1, <1>2 DEF Next, vars, nsvars

LEMMA ApartStep == TypeInv /\ ApartInv /\ [Next]_vars => ApartInv'
<1> SUFFICES ASSUME TypeInv, ApartInv, [Next]_vars PROVE ApartInv' OBVIOUS
<1>1. CASE UNCHANGED nsvars BY <1>1 DEF nsvars, ApartInv
<1>2. ASSUME NEW r \in Runs, Job(r) PROVE ApartInv'
  <2>1. \A q \in Runs : q # r => js'[q] = js[q] BY <1>2, JobProcesses
  <2>2. \/ apart' = apart /\ (js' = js \/ js'[r] = Rest \/ js[r].job \in {"deliver", "queue"})
        \/ apart' = (apart /\ \A q \in Runs : js[q] = Rest)
    BY <1>2, JobProcesses
  <2>3. CASE apart' = apart /\ (js' = js \/ js'[r] = Rest \/ js[r].job \in {"deliver", "queue"})
    <3>1. \A q \in Runs : js'[q] # Rest => js[q] # Rest BY <2>1, <2>3, RestTyped
    <3> QED BY <2>3, <3>1 DEF ApartInv
  <2>4. CASE apart' = (apart /\ \A q \in Runs : js[q] = Rest)
    <3>1. apart' => \A q \in Runs : js'[q] # Rest => q = r BY <2>1, <2>4
    <3> QED BY <3>1 DEF ApartInv
  <2> QED BY <2>2, <2>3, <2>4
<1> QED BY <1>1, <1>2 DEF Next, vars, nsvars

\* A step after which the records say the same, and a failed one has not been revived.
Steady ==
    /\ Made' = Made /\ torn \subseteq torn'
    /\ \A d \in Ids : /\ recs'[d].text = recs[d].text /\ recs'[d].chan = recs[d].chan
                      /\ recs[d].status = "failed" /\ d \notin torn' => recs'[d].status = "failed"

LEMMA BriefSteady ==
  ASSUME BriefInv, Steady, UNCHANGED nsvars
  PROVE  BriefInv'
<1>1. \A v \in 1 .. MaxBriefs : Of(v)' = Of(v) BY DEF Of, Steady, Made
<1>2. \A v \in 1 .. MaxBriefs : \A d \in Of(v) : d \in Ids BY DEF Of, Made
<1>3. js' = js /\ apart' = apart BY DEF nsvars
<1> SUFFICES ASSUME NEW v \in 1 .. MaxBriefs
             PROVE  /\ \A d \in Of(v) : recs'[d].chan = "telegram"
                    /\ apart /\ (\A d \in Of(v) : d \notin torn') =>
                         /\ \A d, e \in Of(v) : d # e => recs'[d].status = "failed"
                                                         \/ recs'[e].status = "failed"
                         /\ \A r \in Runs : js[r].job = "queue" /\ js[r].text = Brief(v)
                              => \A d \in Of(v) : recs'[d].status = "failed"
  BY <1>1, <1>3 DEF BriefInv
<1>4. \A d \in Of(v) : recs'[d].chan = "telegram" BY <1>2 DEF BriefInv, Steady
<1>5. ASSUME apart, \A d \in Of(v) : d \notin torn'
      PROVE  /\ \A d, e \in Of(v) : d # e => recs'[d].status = "failed" \/ recs'[e].status = "failed"
             /\ \A r \in Runs : js[r].job = "queue" /\ js[r].text = Brief(v)
                  => \A d \in Of(v) : recs'[d].status = "failed"
  <2>1. \A d \in Of(v) : d \notin torn BY <1>5 DEF Steady
  <2>2. \A d \in Of(v) : recs[d].status = "failed" => recs'[d].status = "failed"
    BY <1>2, <1>5 DEF Steady
  <2> QED BY <1>5, <2>1, <2>2 DEF BriefInv
<1> QED BY <1>4, <1>5

LEMMA MarkSteady ==
  ASSUME TypeInv, RecordInv, NEW k \in 0 .. MaxDeliveries, NEW status \in {"delivered", "failed"},
         NEW dup \in BOOLEAN, Mark(k, status, dup),
         k \in Ids \ torn => recs[k].status = "queued",
         \A d \in Ids : recs'[d].status = "none" <=> recs[d].status = "none"
  PROVE  Steady
<1>1. \/ /\ k \in Ids /\ torn' = torn
         /\ recs'[k].chan = recs[k].chan /\ recs'[k].text = recs[k].text
         /\ \A e \in Ids : e # k => recs'[e] = recs[e]
      \/ recs' = recs /\ torn' = torn /\ k = 0
      \/ recs' = recs /\ torn' = torn \cup {k} /\ k \in Ids
  BY MarkEffect
<1>2. Made' = Made BY DEF Made, Ids
<1> QED BY <1>1, <1>2 DEF Steady

LEMMA QueueBriefInv ==
  ASSUME TypeInv, RecordInv, Numbered, BriefInv, NEW chan \in {"telegram", "web_api"},
         NEW x \in AnyText, Queue(chan, x), torn' = torn,
         apart' = apart,
         \A v \in 1 .. MaxBriefs : x = Brief(v) =>
            /\ chan = "telegram"
            /\ apart /\ (\A d \in Of(v) : d \notin torn) => \A d \in Of(v) : recs[d].status = "failed"
            /\ apart => \A r \in Runs : ~(js'[r].job = "queue" /\ js'[r].text = x),
         \A r \in Runs : js'[r].job = "queue" => js'[r] = js[r]
  PROVE  BriefInv'
<1>1. Fresh \in Ids BY QueueTyped
<1>2. PICK n \in Ids : n = Fresh BY <1>1
<1>3. /\ \A d \in Ids : d # n => recs'[d] = recs[d]
      /\ recs'[n].chan = chan /\ recs'[n].text = x /\ recs[n].status = "none"
  BY <1>2, QueueTyped, FreshUnused
<1>4. Made' = Made \cup {n} /\ n \notin Made /\ Made \subseteq Ids
  <2>1. Made' = Made \cup {Fresh} BY QueueNumbers
  <2> QED BY <1>2, <1>3, <2>1 DEF Made
<1>5. ASSUME NEW v \in 1 .. MaxBriefs
      PROVE  Of(v)' = IF x = Brief(v) THEN Of(v) \cup {n} ELSE Of(v)
  <2>1. \A d \in Made : recs'[d] = recs[d] BY <1>3, <1>4
  <2> QED BY <1>3, <1>4, <2>1 DEF Of
<1>6. \A v \in 1 .. MaxBriefs : \A d \in Of(v) : recs'[d] = recs[d] /\ d # n
  BY <1>3, <1>4 DEF Of
<1> SUFFICES ASSUME NEW v \in 1 .. MaxBriefs
             PROVE  /\ \A d \in Of(v)' : recs'[d].chan = "telegram"
                    /\ apart /\ (\A d \in Of(v)' : d \notin torn) =>
                         /\ \A d, e \in Of(v)' : d # e => recs'[d].status = "failed"
                                                         \/ recs'[e].status = "failed"
                         /\ \A r \in Runs : js'[r].job = "queue" /\ js'[r].text = Brief(v)
                              => \A d \in Of(v)' : recs'[d].status = "failed"
  BY DEF BriefInv
<1>7. CASE x # Brief(v) BY <1>5, <1>6, <1>7 DEF BriefInv
<1>8. CASE x = Brief(v)
  <2>1. Of(v)' = Of(v) \cup {n} BY <1>5, <1>8
  <2>2. \A d \in Of(v)' : recs'[d].chan = "telegram" BY <1>3, <1>6, <1>8, <2>1 DEF BriefInv
  <2>3. ASSUME apart, \A d \in Of(v)' : d \notin torn
        PROVE  /\ \A d, e \in Of(v)' : d # e => recs'[d].status = "failed" \/ recs'[e].status = "failed"
               /\ \A r \in Runs : js'[r].job = "queue" /\ js'[r].text = Brief(v)
                    => \A d \in Of(v)' : recs'[d].status = "failed"
    <3>1. \A d \in Of(v) : recs'[d].status = "failed" BY <1>6, <1>8, <2>1, <2>3
    <3> QED BY <1>8, <2>1, <2>3, <3>1
  <2> QED BY <2>2, <2>3
<1> QED BY <1>7, <1>8

LEMMA ChannelBrief ==
  ASSUME TypeInv, TypeInv', RecordInv, Numbered, BriefInv, ChNext, UNCHANGED nsvars
  PROVE  BriefInv'
<1>0. DOMAIN hs = Threads BY DEF TypeInv
<1>1. CASE UNCHANGED recs /\ torn \subseteq torn'
  <2>1. Steady BY <1>1 DEF Steady, Made, Ids
  <2> QED BY <2>1, BriefSteady
<1>2. ASSUME NEW a \in Threads, Enqueue(a) PROVE BriefInv'
  <2>1. CASE Queue(IF a = "web" THEN "web_api" ELSE "telegram", hs[a].text)
    <3>1. hs[a].text \in AnyText BY DEF TypeInv, Handlers, AnyText
    <3>2. \A v \in 1 .. MaxBriefs : hs[a].text # Brief(v)
      BY BriefsDiffer, NightShiftAssumption DEF TypeInv, Handlers
    <3>3. torn' = torn /\ apart' = apart /\ js' = js BY <1>2 DEF Enqueue, nsvars
    <3>4. PICK c \in {"telegram", "web_api"} : c = IF a = "web" THEN "web_api" ELSE "telegram"
      OBVIOUS
    <3>5. Queue(c, hs[a].text) BY <2>1, <3>4
    <3> QED BY <3>1, <3>2, <3>3, <3>5, QueueBriefInv
  <2>2. CASE UNCHANGED recs /\ torn' = torn BY <1>1, <2>2
  <2> QED BY <1>2, <2>1, <2>2 DEF Enqueue
<1>3. ASSUME NEW a \in Threads, Finish(a) PROVE BriefInv'
  <2>1. PICK k \in 0 .. MaxDeliveries : k = hs[a].d BY DEF TypeInv, Handlers
  <2>2. PICK st \in {"delivered", "failed"} : Mark(k, st, FALSE) BY <1>3, <2>1 DEF Finish
  <2>3. k \in Ids \ torn => recs[k].status = "queued" BY <2>1 DEF RecordInv, Calm
  <2>4. \A d \in Ids : recs'[d].status = "none" <=> recs[d].status = "none" BY <1>3, FinishKeeps
  <2> QED BY <2>2, <2>3, <2>4, MarkSteady, BriefSteady
<1>4. CASE DrainMark
  <2>1. PICK k \in 0 .. MaxDeliveries : k = drain.d BY DEF TypeInv, Drains
  <2>2. PICK st \in {"delivered", "failed"} : Mark(k, st, FALSE) BY <1>4, <2>1 DEF DrainMark
  <2>3. k \in Ids \ torn => recs[k].status = "queued" BY <2>1 DEF RecordInv, Calm
  <2>4. \A d \in Ids : recs'[d].status = "none" <=> recs[d].status = "none" BY <1>4, DrainMarkKeeps
  <2> QED BY <2>2, <2>3, <2>4, MarkSteady, BriefSteady
<1>5. ASSUME NEW d \in Ids, DrainNext(d) PROVE BriefInv'
  <2>1. CASE UNCHANGED recs /\ torn' = torn BY <1>1, <2>1
  <2>2. CASE Mark(d, "delivered", TRUE)
    <3>1. d \in 0 .. MaxDeliveries BY ChannelAssumption DEF Ids
    <3>2. d \in Ids \ torn => recs[d].status = "queued" BY <1>5 DEF DrainNext, RecordInv, Calm
    <3>3. \A e \in Ids : recs'[e].status = "none" <=> recs[e].status = "none"
      BY <1>5, DrainNextKeeps
    <3> QED BY <2>2, <3>1, <3>2, <3>3, MarkSteady, BriefSteady
  <2> QED BY <1>5, <2>1, <2>2 DEF DrainNext
<1>6. ASSUME NEW d \in Ids, TidyMark(d) PROVE BriefInv'
  <2>0. d \in 0 .. MaxDeliveries BY ChannelAssumption DEF Ids
  <2>1. Mark(d, "failed", FALSE) BY <1>6 DEF TidyMark
  <2>2. d \in Ids \ torn => recs[d].status = "queued" BY <1>6 DEF TidyMark, RecordInv, Calm
  <2>3. \A e \in Ids : recs'[e].status = "none" <=> recs[e].status = "none" BY <1>6, TidyMarkKeeps
  <2> QED BY <2>0, <2>1, <2>2, <2>3, MarkSteady, BriefSteady
<1>7. ASSUME NEW d \in Ids, Age(d) \/ Forget(d) PROVE BriefInv'
  <2>1. torn \subseteq torn'
        /\ \A e \in Ids : /\ recs'[e].status = recs[e].status /\ recs'[e].text = recs[e].text
                          /\ recs'[e].chan = recs[e].chan
    BY <1>7 DEF Age, Forget, TypeInv, Records
  <2>2. Made' = Made BY <2>1 DEF Made, Ids
  <2> QED BY <2>1, <2>2, BriefSteady DEF Steady
<1>8. ASSUME NEW m \in Msgs, Receive(m) \/ Lapse(m) PROVE UNCHANGED <<recs, torn>>
  BY <1>8 DEF Receive, Lapse
<1>9. ASSUME NEW a \in Threads, Answer(a) \/ Check(a) \/ Send(a) PROVE UNCHANGED <<recs, torn>>
  BY <1>9 DEF Answer, Check, Send
<1>10. ASSUME Poll \/ DrainList \/ DrainSend \/ TidyList PROVE UNCHANGED <<recs, torn>>
  BY <1>10 DEF Poll, DrainList, DrainSend, TidyList
<1>11. ASSUME Crash PROVE UNCHANGED recs /\ torn \subseteq torn' BY <1>11 DEF Crash
<1>12. CASE Foreign
  <2>1. PICK x \in Texts \cup {NoText} : Queue("telegram", x) BY <1>12 DEF Foreign
  <2>2. x \in AnyText /\ \A v \in 1 .. MaxBriefs : x # Brief(v)
    BY BriefsDiffer, NightShiftAssumption DEF AnyText
  <2>3. torn' = torn /\ apart' = apart /\ js' = js BY <1>12 DEF Foreign, nsvars
  <2> QED BY <2>1, <2>2, <2>3, QueueBriefInv
<1> QED BY <1>0, <1>1, <1>2, <1>3, <1>4, <1>5, <1>6, <1>7, <1>8, <1>9, <1>10, <1>11, <1>12 DEF ChNext

LEMMA JobBrief ==
  ASSUME TypeInv, TypeInv', RecordInv, Numbered, ApartInv, BriefInv, NEW r \in Runs, Job(r)
  PROVE  BriefInv'
<1>1. CASE QueueBrief(r)
  <2>1. /\ js[r].text \in AnyText /\ Queue("telegram", js[r].text) /\ js[r].job = "queue"
        /\ torn' = torn /\ apart' = apart
    BY <1>1 DEF QueueBrief, TypeInv, Processes
  <2>2. PICK x \in AnyText : x = js[r].text BY <2>1
  <2>3. js'[r].job = "wait" /\ \A q \in Runs : q # r => js'[q] = js[q]
    <3> DEFINE n == Fresh
    <3>1. js' = [js EXCEPT ![r].job = "wait", ![r].d = n] BY <1>1 DEF QueueBrief
    <3> HIDE DEF n
    <3> QED BY <3>1 DEF TypeInv, Processes
  <2>4. apart => \A q \in Runs : js[q].job = "queue" => q = r
    BY <2>1, RestTyped DEF ApartInv
  <2>5. \A q \in Runs : js'[q].job = "queue" => js'[q] = js[q] /\ q # r BY <2>3
  <2>6. ASSUME NEW v \in 1 .. MaxBriefs, x = Brief(v), apart, \A d \in Of(v) : d \notin torn
        PROVE  \A d \in Of(v) : recs[d].status = "failed"
    BY <2>1, <2>2, <2>6 DEF BriefInv
  <2>7. apart => \A q \in Runs : ~(js'[q].job = "queue" /\ js'[q].text = x) BY <2>4, <2>5
  <2>8. Queue("telegram", x) BY <2>1, <2>2
  <2> QED BY <2>1, <2>5, <2>6, <2>7, <2>8, QueueBriefInv
<1>2. CASE ~QueueBrief(r)
  <2>1. UNCHANGED chvars
    BY <1>2 DEF Job, Kickoff, Research, StartWrite, FinishWrite, StartQa, FinishQa, StartDeliver,
                Offer, Handoff
  <2>2. recs' = recs /\ torn' = torn /\ \A v \in 1 .. MaxBriefs : Of(v)' = Of(v)
    BY <2>1 DEF chvars, Of, Made, Ids
  <2>3. apart' => apart
    <3>1. \/ apart' = apart \/ apart' = (apart /\ \A q \in Runs : js[q] = Rest) BY JobProcesses
    <3> QED BY <3>1
  <2>4. ASSUME NEW q \in Runs, js'[q].job = "queue"
        PROVE  \/ js[q].job = "queue" /\ js'[q].text = js[q].text
               \/ ~Known(js'[q].text)
    <3>1. CASE q # r \/ js' = js BY <2>4, <3>1, JobProcesses
    <3>2. CASE q = r /\ js' # js
      <4>1. ~Known(js[r].text) /\ js'[r].text = js[r].text
        BY <1>2, <2>4, <3>2, JobProcesses, RestTyped
      <4> QED BY <3>2, <4>1
    <3> QED BY <3>1, <3>2
  <2>5. ASSUME NEW v \in 1 .. MaxBriefs, ~Known(Brief(v)), NEW d \in Of(v)
        PROVE  recs[d].status = "failed"
    <3>1. /\ d \in Made /\ recs[d].text = Brief(v) /\ recs[d].chan = "telegram"
          /\ recs[d].status \in {"queued", "delivered", "failed"}
      BY DEF BriefInv, Of, Made, TypeInv, Records
    <3>2. Brief(v) \in Lasting BY NightShiftAssumption
    <3>3. d \notin Matches(Brief(v)) BY <2>5 DEF Known
    <3> QED BY <3>1, <3>2, <3>3 DEF Matches
  <2> SUFFICES ASSUME NEW v \in 1 .. MaxBriefs
               PROVE  /\ \A d \in Of(v) : recs[d].chan = "telegram"
                      /\ apart' /\ (\A d \in Of(v) : d \notin torn) =>
                           /\ \A d, e \in Of(v) : d # e => recs[d].status = "failed"
                                                           \/ recs[e].status = "failed"
                           /\ \A q \in Runs : js'[q].job = "queue" /\ js'[q].text = Brief(v)
                                => \A d \in Of(v) : recs[d].status = "failed"
    BY <2>2 DEF BriefInv
  <2> QED BY <2>3, <2>4, <2>5 DEF BriefInv
<1> QED BY <1>1, <1>2

LEMMA NightInvariant == Spec => []Inv
<1>1. Init => Inv
  <2> SUFFICES ASSUME Init PROVE Inv OBVIOUS
  <2>1. TypeInv /\ RecordInv /\ Numbered BY InitTyped, InitRecords
  <2>2. HandledInv BY DEF Init, ChInit, HandledInv
  <2>3. verdict = "none" /\ \A r \in Runs : js[r] = Rest BY DEF Init
  <2>4. QaInv /\ ApartInv BY <2>3, RestTyped DEF QaInv, ApartInv
  <2>5. Made = {} BY DEF Init, ChInit, Made, NoRecord
  <2>6. \A v \in 1 .. MaxBriefs : Of(v) = {} BY <2>5 DEF Of
  <2>7. BriefInv BY <2>6 DEF BriefInv
  <2> QED BY <2>1, <2>2, <2>4, <2>7 DEF Inv
<1>2. Inv /\ [Next]_vars => Inv'
  <2> SUFFICES ASSUME Inv, [Next]_vars PROVE Inv' OBVIOUS
  <2>1. TypeInv' BY NextTyped DEF Inv
  <2>2. RecordInv' /\ Numbered' BY <2>1, RecordStep DEF Inv
  <2>3. HandledInv' /\ QaInv' /\ ApartInv' BY HandledStep, QaStep, ApartStep DEF Inv
  <2>4. BriefInv'
    <3>1. CASE UNCHANGED vars
      <4>1. Steady /\ UNCHANGED nsvars BY <3>1 DEF Steady, Made, Ids, vars, chvars
      <4> QED BY <4>1, BriefSteady DEF Inv
    <3> QED BY <2>1, <3>1, ChannelBrief, JobBrief DEF Inv, Next
  <2> QED BY <2>1, <2>2, <2>3, <2>4 DEF Inv
<1> QED BY <1>1, <1>2, PTL DEF Spec

\* However often the deliver job runs, whatever it races with and whenever the gateway stops, a
\* brief on its way was accepted by QA and reaches the chat once: the bridge's look for a
\* duplicate, the marks of the drain and the unlimited window of briefs agree.
THEOREM BriefsShownOnce == Spec => []AcceptedShownOnce
<1>1. Inv => AcceptedShownOnce
  <2> SUFFICES ASSUME Inv PROVE AcceptedShownOnce OBVIOUS
  <2>1. \A r \in Runs : js[r].job \in {"queue", "wait"} /\ js[r].text = Brief(js[r].v) /\ js[r].match
          => js[r].v \in accepted
    BY DEF Inv, QaInv
  <2>2. ASSUME apart, NEW v \in 1 .. MaxBriefs, \A d \in Of(v) : d \notin torn
        PROVE  Cardinality({d \in Of(v) : sent[d] > 0}) <= 1
    <3> DEFINE S == {d \in Of(v) : sent[d] > 0}
    <3>1. \A d, e \in S : d = e
      <4> SUFFICES ASSUME NEW d \in S, NEW e \in S, d # e PROVE FALSE OBVIOUS
      <4>1. recs[d].status = "failed" \/ recs[e].status = "failed" BY <2>2 DEF Inv, BriefInv
      <4>2. d \in Ids /\ e \in Ids /\ sent[d] > 0 /\ sent[e] > 0 /\ Calm(d) /\ Calm(e)
        BY <2>2 DEF Inv, RecordInv, Of, Made
      <4> QED BY <4>1, <4>2 DEF Calm
    <3>2. CASE S = {} BY <3>2, FS_EmptySet
    <3>3. CASE S # {}
      <4>1. PICK d \in S : TRUE BY <3>3
      <4>2. S = {d} BY <3>1, <4>1
      <4> QED BY <4>2, FS_Singleton
    <3> QED BY <3>2, <3>3
  <2> QED BY <2>1, <2>2 DEF AcceptedShownOnce, Of
<1> QED BY <1>1, NightInvariant, PTL
=============================================================================
